---- MODULE Spec2Model ----
(***************************************************************************)
(* Model of the bulk-fetch orchestration layer of meli-dashboard:          *)
(*   - fetchWithRetry, the resilient fetcher (products and sales routes),  *)
(*   - the sales route (orders pagination, itemSales fold, SKU batches),   *)
(*   - the products route (user lookup, items search, detail batches),     *)
(*   - the dashboard's fetchProducts / loadMoreProducts.                   *)
(* Upstream answers are nondeterministic inputs drawn from small sets.     *)
(***************************************************************************)
EXTENDS Integers, Sequences, FiniteSets, TLC

VARIABLES
    \* ---- fetchWithRetry, or a plain fetch (one call in progress at a time) ----
    fPc,        \* "idle" | "running" | "direct" (a plain fetch) | "returned" | "thrown"
    fI,         \* the loop index i
    fRetries,   \* parameter retries
    fDelayMs,   \* parameter delayMs
    fStatuses,  \* outcome of every upstream request issued by this call, in order
    fWaits,     \* every delay(...) awaited by this call, in order
    fResp,      \* status of the Response returned (NoResponse while none)
    fErr,       \* "" | "transport" | "maxretries": the error raised
    \* ---- the upstream order history seen by one run of the sales route ----
    upTotal,    \* paging.total the upstream declares
    upShortAt,  \* offset whose page comes back short (NoShort: none)
    upShortLen, \* number of results of that short page
    upNullEntries,  \* item ids whose entry of the multi-get answer is null
    \* ---- the revision of each data route that answers ----
    salesRoute,     \* "route.ts": src/app/api/sales/route.ts, "part_001": the
                    \* revision with fetchWithRetry (src/unnamed/part_001)
    productsRoute,  \* "route.ts": src/app/api/products/route.ts, "part_000":
                    \* the revision whose records carry shipping
    \* ---- the sales route, GET /api/sales ----
    sPc,            \* position in the handler
    accessToken,    \* the meli_access_token cookie is present
    userStatus,     \* userResponse.status (NoResponse before it)
    allOrders,
    offset,
    hasMore,
    totalFound,
    failedAttempts,
    results,        \* ordersData.results of the last successful page
    authRejected,   \* an orders page of this run was answered 401
    requestedOffsets, \* the offsets of the order pages requested so far
    pageRepeated,   \* an order page was requested at an offset already requested
    itemSales,      \* the object's properties in insertion order: [id, units]
    totalUnits,
    itemIds,
    salesBySKU,
    processedItems,
    batchI,         \* the i of the SKU batch loop
    skuBatchesFailed, \* the i of the SKU batches that were not answered 2xx
    skuEntriesRead, \* the positions of itemIds whose entry of a 2xx answer
                    \* the loop for (const item of items) got through
    sResponse,      \* the NextResponse.json the route returns
    \* ---- the upstream catalog behind /api/products ----
    catTotal,       \* paging.total of the items search
    catSkipped,     \* the items whose multi-get entry is not a 200
    catNoBody,      \* the items whose multi-get entry has no body
    catStale,       \* the last items counted by paging.total that the search
                    \* no longer returns (0: the declared total is exact)
    \* ---- the catalog route: GET /api/products ----
    pPc,            \* position in the handler
    pOffset,        \* the offset query parameter
    pLimit,         \* the limit query parameter
    pItemIds,       \* itemsData.results
    pTotal,         \* itemsData.paging.total
    pProducts,      \* products
    pBatchI,        \* the i of the detail loop
    pSkippedBatches,\* the i of the detail batches answered non-2xx
    pResponse,      \* the NextResponse.json the route returns
    \* ---- the dashboard component ----
    revision,       \* "all": dashboard/page.tsx, "loadmore": the revision with
                    \* loadMoreProducts
    fpPc,           \* position in fetchProducts
    fpI,            \* the i of its loop
    allProducts,
    products,
    filteredProducts,
    loading,
    loadingMore,
    error,
    total,
    redirected,     \* router.push('/') was called
    lmPc,           \* position in loadMoreProducts
    lmI,            \* the i of its loop
    currentCount,
    moreProducts,
    requestLog,     \* the offsets of the /api/products requests, in order
    pageFaults,     \* /api/products requests not answered 200 so far
    fsPc,           \* position in fetchSales
    loadingSales,
    dashSalesBySKU, \* the component's salesBySKU state
    salesAnswer,    \* what /api/sales answers to this mount
    currentPage,
    itemsPerPage,
    searchTerm,
    fulfillmentFilter,
    statusFilter,
    effectError,    \* filterProducts threw inside its effect
    renderError,    \* the render of the table's rows threw
    logoutPending,  \* POST /api/logout requests of handleLogout in flight
    \* ---- the session ----
    refreshToken,   \* the cookie meli_refresh_token is set
    authResponse,   \* the last answer of /api/callback or /api/logout
    \* ---- the requests of the detail pass ----
    detailLog       \* the batches of ids requested by the running route, in order

fvars == <<fPc, fI, fRetries, fDelayMs, fStatuses, fWaits, fResp, fErr>>

upvars == <<upTotal, upShortAt, upShortLen, upNullEntries, salesRoute, productsRoute,
            catStale>>

svars == <<sPc, accessToken, userStatus, allOrders, offset, hasMore, totalFound,
           failedAttempts, results, authRejected, requestedOffsets, pageRepeated,
           itemSales, totalUnits, itemIds,
           salesBySKU, processedItems, batchI, skuBatchesFailed,
                   skuEntriesRead, sResponse>>

pvars == <<pPc, pOffset, pLimit, pItemIds, pTotal, pProducts, pBatchI, pSkippedBatches,
           pResponse>>

dvars == <<catTotal, catSkipped, catNoBody, revision, fpPc, fpI, allProducts, products,
           filteredProducts, loading, loadingMore, error, total, redirected,
           lmPc, lmI, currentCount, moreProducts, requestLog, pageFaults,
           fsPc, loadingSales, dashSalesBySKU, salesAnswer,
           currentPage, itemsPerPage, searchTerm, fulfillmentFilter, statusFilter,
           effectError, renderError, logoutPending>>

\* the part of the component's state that fetchSales works on
jvars == <<fsPc, loadingSales, dashSalesBySKU, salesAnswer>>

\* the part of the component's state behind the table: page, page size and
\* filters
tvars == <<currentPage, itemsPerPage, searchTerm, fulfillmentFilter, statusFilter,
           effectError, logoutPending>>

\* the session's state besides the cookie meli_access_token (accessToken)
avars == <<refreshToken, authResponse>>

gvars == <<detailLog>>

vars == <<fvars, upvars, svars, pvars, dvars, avars, gvars>>

-----------------------------------------------------------------------------
(* Bounds of the model.                                                    *)

\* largest retry budget a fetchWithRetry call is explored with
MaxRetries == 3

-----------------------------------------------------------------------------
(* Upstream outcomes of one fetch(url, options).                           *)

\* fetch() rejected: no Response at all (transport-level failure)
NetworkError == 0
\* no Response has been returned (yet)
NoResponse == -1

\* the HTTP statuses the upstream is explored with
Statuses == {200, 204, 401, 404, 429, 500, 503}

Outcomes == Statuses \cup {NetworkError}

\* the delayMs values the routes pass (default 1000; the sales route passes 2000)
DelayValues == {1000, 2000}

-----------------------------------------------------------------------------
(* fetchWithRetry                                                          *)

RECURSIVE Pow2(_)
\* Math.pow(2, i)
Pow2(i) == IF i <= 0 THEN 1 ELSE 2 * Pow2(i - 1)

\* response.ok
IsOk(status) == status >= 200 /\ status <= 299

IsRateLimited_with500(status) == status = 429 \/ status = 503 \/ status = 500
\* response.status === 429 || response.status === 503
IsRateLimited(status) == status = 429 \/ status = 503

WaitTime_shifted(delayMs, i) == delayMs * Pow2(i + 1)
\* delayMs * Math.pow(2, i)
WaitTime(delayMs, i) == delayMs * Pow2(i)

LoopGuard_inclusive(i, retries) == i <= retries
\* the for condition: i < retries
LoopGuard(i, retries) == i < retries

AttemptsRemain_always(i, retries) == i < retries
\* the catch block's condition: i < retries - 1
AttemptsRemain(i, retries) == i < retries - 1

\* entering fetchWithRetry(url, options, retries, delayMs)
FetchCall(retries, delayMs) ==
    /\ fPc' = "running"
    /\ fI' = 0
    /\ fRetries' = retries
    /\ fDelayMs' = delayMs
    /\ fStatuses' = <<>>
    /\ fWaits' = <<>>
    /\ fResp' = NoResponse
    /\ fErr' = ""

\* the state of the fetcher when no call is in progress
FetchIdle ==
    /\ fPc = "idle"
    /\ fI = 0
    /\ fRetries = 0
    /\ fDelayMs = 0
    /\ fStatuses = <<>>
    /\ fWaits = <<>>
    /\ fResp = NoResponse
    /\ fErr = ""

\* one iteration of the for loop: fetch, then return, wait-and-continue or throw
FetchAttempt(outcome) ==
    /\ fPc = "running"
    /\ LoopGuard(fI, fRetries)
    /\ fStatuses' = Append(fStatuses, outcome)
    /\ UNCHANGED <<fRetries, fDelayMs>>
    /\ IF outcome = NetworkError
       THEN \* catch (error)
            IF AttemptsRemain(fI, fRetries)
            THEN /\ fWaits' = Append(fWaits, WaitTime(fDelayMs, fI))
                 /\ fI' = fI + 1
                 /\ UNCHANGED <<fPc, fResp, fErr>>
            ELSE /\ fPc' = "thrown"
                 /\ fErr' = "transport"
                 /\ UNCHANGED <<fI, fWaits, fResp>>
       ELSE IF IsOk(outcome)
       THEN /\ fPc' = "returned"
            /\ fResp' = outcome
            /\ UNCHANGED <<fI, fWaits, fErr>>
       ELSE IF IsRateLimited(outcome)
       THEN /\ fWaits' = Append(fWaits, WaitTime(fDelayMs, fI))
            /\ fI' = fI + 1
            /\ UNCHANGED <<fPc, fResp, fErr>>
       ELSE /\ fPc' = "returned"
            /\ fResp' = outcome
            /\ UNCHANGED <<fI, fWaits, fErr>>

FetchExhausted_returnsLast ==
    /\ fPc = "running"
    /\ ~LoopGuard(fI, fRetries)
    /\ fPc' = "returned"
    /\ fResp' = IF Len(fStatuses) > 0 THEN fStatuses[Len(fStatuses)] ELSE NoResponse
    /\ UNCHANGED <<fI, fRetries, fDelayMs, fStatuses, fWaits, fErr>>
\* the loop ended without a return: throw new Error('Max retries alcanzado')
FetchExhausted ==
    /\ fPc = "running"
    /\ ~LoopGuard(fI, fRetries)
    /\ fPc' = "thrown"
    /\ fErr' = "maxretries"
    /\ UNCHANGED <<fI, fRetries, fDelayMs, fStatuses, fWaits, fResp>>

FetchStep == (\E outcome \in Outcomes : FetchAttempt(outcome)) \/ FetchExhausted

\* entering a plain await fetch(url, options), as src/app/api/sales/route.ts
\* calls the upstream
FetchDirectCall ==
    /\ fPc' = "direct"
    /\ fI' = 0
    /\ fRetries' = 0
    /\ fDelayMs' = 0
    /\ fStatuses' = <<>>
    /\ fWaits' = <<>>
    /\ fResp' = NoResponse
    /\ fErr' = ""

\* the plain fetch settles: it resolves with the Response, whatever its
\* status, or rejects
FetchDirect(outcome) ==
    /\ fPc = "direct"
    /\ fStatuses' = Append(fStatuses, outcome)
    /\ IF outcome = NetworkError
       THEN /\ fPc' = "thrown"
            /\ fErr' = "transport"
            /\ UNCHANGED fResp
       ELSE /\ fPc' = "returned"
            /\ fResp' = outcome
            /\ UNCHANGED fErr
    /\ UNCHANGED <<fI, fRetries, fDelayMs, fWaits>>

-----------------------------------------------------------------------------
(* The upstream as one run of the sales route sees it.                     *)

\* upShortAt when no page comes back short
NoShort == -1
\* orderItem.item?.id undefined
NoItem == 0
\* orderItem.quantity undefined
NoQuantity == -1000
\* SELLER_SKU attribute absent, or with an empty value_name
NoSku == ""

\* number of distinct item ids the upstream orders refer to
NumItems == 25

\* the order histories explored: the declared total (the 11 orders of the
\* shortest one sell resolvable items only), and for the total 120 also a
\* second page that comes back short (20 results) or empty
OrderTotals == {0, 11, 20, 120, 2500}
UpstreamCases ==
    [total : OrderTotals, shortAt : {NoShort}, shortLen : {0}]
    \cup [total : {120}, shortAt : {50}, shortLen : {0, 20}]

\* outcomes of one upstream request inside the pipelines
PipelineOutcomes == {200, 401, 429, 500, NetworkError}

Min(a, b) == IF a <= b THEN a ELSE b
Max(a, b) == IF a >= b THEN a ELSE b

\* const limit = 50
limit == 50
\* const maxFailedAttempts = 3
maxFailedAttempts == 3
\* if (offset >= 2000)
SafetyLimit == 2000
\* i += 20 / itemIds.slice(i, i + 20)
BatchSize == 20
\* fetchWithRetry's defaults: retries = 3, delayMs = 1000
DefaultRetries == 3
DefaultDelayMs == 1000
\* the delayMs the sales route passes for order pages and SKU batches
SalesDelayMs == 2000

\* ordersData.results of the page at offset off: the upstream orders
\* off, off+1, ... (orders are numbered from 0 in upstream order)
OrdersPage(off) ==
    LET avail == Max(0, upTotal - off)
        full  == Min(limit, avail)
        n     == IF off = upShortAt THEN Min(upShortLen, full) ELSE full
    IN  [j \in 1..n |-> off + j - 1]

\* orderItem.quantity of the main line of upstream order o: 0, negative,
\* undefined, or 1, 2, 5
OrderQuantity(o) ==
    IF o % 7 = 3 THEN 0
    ELSE IF o % 11 = 5 THEN -1
    ELSE IF o % 13 = 6 THEN NoQuantity
    ELSE IF o % 3 = 0 THEN 5
    ELSE o % 3

\* order.order_items of upstream order o: none, or a main line, for some
\* orders followed by a line without item id and by a second line of the
\* same item
OrderItems(o) ==
    IF o % 10 = 9
    THEN <<>>
    ELSE <<[item |-> (o % NumItems) + 1, quantity |-> OrderQuantity(o)]>>
         \o (IF o % 4 = 0 THEN <<[item |-> NoItem, quantity |-> 2]>> ELSE <<>>)
         \o (IF o % 6 = 1 THEN <<[item |-> (o % NumItems) + 1, quantity |-> 1]>>
             ELSE <<>>)

\* code of the multi-get entry of item id
ItemCode(id) == IF id % 7 = 0 THEN 404 ELSE 200
\* the multi-get entry of item id has a body
ItemHasBody(id) == id % 11 # 0
\* value_name of the SELLER_SKU attribute of item id (NoSku: none); the
\* seller gave item 17 the SKU text 'SIN-SKU'
ItemSkuValue(id) ==
    IF id % 5 = 0 THEN NoSku
    ELSE IF id = 17 THEN "SIN-SKU"
    ELSE IF id % 3 = 0 THEN "SKU-A"
    ELSE IF id % 3 = 1 THEN "SKU-B"
    ELSE "SKU-C"

UpstreamQuiet ==
    /\ upTotal = 0
    /\ upShortAt = NoShort
    /\ upShortLen = 0
    /\ upNullEntries = {}
    /\ salesRoute = "part_001"

-----------------------------------------------------------------------------
(* The sales route: GET /api/sales                                         *)

FetchReset ==
    /\ fPc' = "idle"
    /\ fI' = 0
    /\ fRetries' = 0
    /\ fDelayMs' = 0
    /\ fStatuses' = <<>>
    /\ fWaits' = <<>>
    /\ fResp' = NoResponse
    /\ fErr' = ""

FetchFinished_early == fPc \in {"running", "returned", "thrown"}
\* the awaited call of fetchWithRetry has returned or thrown
FetchFinished == fPc \in {"returned", "thrown"}

\* the handler's locals before the handler runs
SalesLocalsInit ==
    /\ userStatus = NoResponse
    /\ allOrders = <<>>
    /\ offset = 0
    /\ hasMore = TRUE
    /\ totalFound = 0
    /\ failedAttempts = 0
    /\ results = <<>>
    /\ authRejected = FALSE
    /\ requestedOffsets = {}
    /\ pageRepeated = FALSE
    /\ itemSales = <<>>
    /\ totalUnits = 0
    /\ itemIds = <<>>
    /\ salesBySKU = <<>>
    /\ processedItems = 0
    /\ batchI = 0
    /\ skuBatchesFailed = {}
    /\ skuEntriesRead = {}
    /\ sResponse = [status |-> 0]

SalesNotStarted ==
    /\ sPc = "off"
    /\ accessToken = FALSE
    /\ SalesLocalsInit

\* catch (error) of the handler: 500 'Error obteniendo ventas'
SalesError500 == [status |-> 500, error |-> "Error obteniendo ventas"]

\* an upstream request of the sales route: fetchWithRetry(url, options,
\* retries, delayMs) in the revision of src/unnamed/part_001, a plain
\* fetch(url, options) in src/app/api/sales/route.ts
SalesFetch(retries, delayMs) ==
    IF salesRoute = "part_001" THEN FetchCall(retries, delayMs) ELSE FetchDirectCall

\* cookie check, then the user lookup (fetchWithRetry with its defaults)
SalesGet ==
    /\ sPc = "start"
    /\ IF ~accessToken
       THEN /\ sResponse' = [status |-> 401, error |-> "No autenticado"]
            /\ sPc' = "done"
            /\ UNCHANGED fvars
       ELSE /\ SalesFetch(DefaultRetries, DefaultDelayMs)
            /\ sPc' = "user"
            /\ UNCHANGED sResponse
    /\ UNCHANGED <<upvars, accessToken, userStatus, allOrders, offset, hasMore,
                   totalFound, failedAttempts, results, authRejected,
                   requestedOffsets, pageRepeated, itemSales,
                   totalUnits, itemIds, salesBySKU, processedItems, batchI, skuBatchesFailed,
                   skuEntriesRead>>

\* if (!userResponse.ok) throw; a raised error of the request goes to the same catch
SalesUserDone ==
    /\ sPc = "user"
    /\ FetchFinished
    /\ userStatus' = fResp
    /\ IF fPc = "thrown" \/ ~IsOk(fResp)
       THEN /\ sResponse' = SalesError500
            /\ sPc' = "done"
       ELSE /\ sPc' = "loop"
            /\ UNCHANGED sResponse
    /\ FetchReset
    /\ UNCHANGED <<upvars, accessToken, allOrders, offset, hasMore,
                   totalFound, failedAttempts, results, authRejected,
                   requestedOffsets, pageRepeated, itemSales,
                   totalUnits, itemIds, salesBySKU, processedItems, batchI, skuBatchesFailed,
                   skuEntriesRead>>

HasMore_ignoresEmpty(off, found, n) == off < found
\* hasMore = offset < totalFound && results.length > 0
HasMore(off, found, n) == off < found /\ n > 0

CeilingReached_never(off) == FALSE
CeilingReached_late(off) == off > SafetyLimit
\* if (offset >= 2000) break
CeilingReached(off) == off >= SafetyLimit

ThresholdReached_late(n) == n > maxFailedAttempts
\* if (failedAttempts >= maxFailedAttempts) break
ThresholdReached(n) == n >= maxFailedAttempts

\* while (hasMore && failedAttempts < maxFailedAttempts), while (hasMore) in
\* src/app/api/sales/route.ts, which has no failedAttempts: request the page
\* at offset
SalesLoopHead ==
    /\ sPc = "loop"
    /\ IF hasMore /\ (salesRoute = "route.ts" \/ failedAttempts < maxFailedAttempts)
       THEN /\ SalesFetch(DefaultRetries, SalesDelayMs)
            /\ requestedOffsets' = requestedOffsets \cup {offset}
            /\ pageRepeated' = (pageRepeated \/ offset \in requestedOffsets)
            /\ sPc' = "page"
       ELSE /\ sPc' = "fold"
            /\ UNCHANGED <<fvars, requestedOffsets, pageRepeated>>
    /\ UNCHANGED <<upvars, accessToken, userStatus, allOrders, offset, hasMore,
                   totalFound, failedAttempts, results, authRejected, itemSales,
                   totalUnits, itemIds, salesBySKU, processedItems, batchI, skuBatchesFailed,
                   skuEntriesRead,
                   sResponse>>

\* the rest of the loop body, once the request has returned or thrown
SalesPageDone ==
    /\ sPc = "page"
    /\ FetchFinished
    /\ IF salesRoute = "route.ts" /\ fPc = "thrown"
       THEN \* src/app/api/sales/route.ts has no try in the loop: the handler's catch
            /\ sResponse' = SalesError500
            /\ sPc' = "done"
            /\ UNCHANGED <<allOrders, offset, hasMore, totalFound, results,
                           failedAttempts, authRejected>>
       ELSE IF salesRoute = "route.ts" /\ ~IsOk(fResp)
       THEN \* if (!ordersResponse.ok) break
            /\ authRejected' = (authRejected \/ fResp = 401)
            /\ sPc' = "fold"
            /\ UNCHANGED <<allOrders, offset, hasMore, totalFound, results,
                           failedAttempts, sResponse>>
       ELSE IF fPc = "thrown" \/ ~IsOk(fResp)
       THEN \* !ordersResponse.ok, or the loop's catch
            /\ failedAttempts' = failedAttempts + 1
            /\ authRejected' = (authRejected \/ (fPc = "returned" /\ fResp = 401))
            /\ sPc' = IF ThresholdReached(failedAttempts + 1) THEN "fold" ELSE "loop"
            /\ UNCHANGED <<allOrders, offset, hasMore, totalFound, results, sResponse>>
       ELSE /\ results' = OrdersPage(offset)
            /\ allOrders' = allOrders \o results'
            /\ totalFound' = upTotal
            /\ offset' = offset + limit
            /\ hasMore' = HasMore(offset + limit, upTotal, Len(results'))
            /\ failedAttempts' = 0
            /\ sPc' = IF CeilingReached(offset + limit) THEN "fold" ELSE "loop"
            /\ UNCHANGED <<authRejected, sResponse>>
    /\ FetchReset
    /\ UNCHANGED <<upvars, accessToken, userStatus, requestedOffsets, pageRepeated,
                   itemSales, totalUnits, itemIds, salesBySKU, processedItems,
                   batchI, skuBatchesFailed,
                   skuEntriesRead>>

\* property itemId of the object itemSales is set
HasKey(obj, id) == \E p \in 1..Len(obj) : obj[p].id = id
KeyPos(obj, id) == CHOOSE p \in 1..Len(obj) : obj[p].id = id
\* itemSales[itemId] || 0
Units(obj, id) == IF HasKey(obj, id) THEN obj[KeyPos(obj, id)].units ELSE 0

\* const quantity = orderItem.quantity || 0
QuantityOf(line) == IF line.quantity = NoQuantity THEN 0 ELSE line.quantity

AddLine_anyQuantity(acc, line) ==
    IF line.item # NoItem
    THEN [obj   |-> IF HasKey(acc.obj, line.item)
                    THEN [acc.obj EXCEPT ![KeyPos(acc.obj, line.item)].units =
                                              @ + QuantityOf(line)]
                    ELSE Append(acc.obj, [id |-> line.item, units |-> QuantityOf(line)]),
          units |-> acc.units + QuantityOf(line)]
    ELSE acc
AddLine_countsLines(acc, line) ==
    IF line.item # NoItem /\ QuantityOf(line) > 0
    THEN [obj   |-> IF HasKey(acc.obj, line.item)
                    THEN [acc.obj EXCEPT ![KeyPos(acc.obj, line.item)].units = @ + 1]
                    ELSE Append(acc.obj, [id |-> line.item, units |-> 1]),
          units |-> acc.units + 1]
    ELSE acc
\* if (itemId && quantity > 0) {
\*   itemSales[itemId] = (itemSales[itemId] || 0) + quantity; totalUnits += quantity }
AddLine(acc, line) ==
    IF line.item # NoItem /\ QuantityOf(line) > 0
    THEN [obj   |-> IF HasKey(acc.obj, line.item)
                    THEN [acc.obj EXCEPT ![KeyPos(acc.obj, line.item)].units =
                                              @ + QuantityOf(line)]
                    ELSE Append(acc.obj, [id |-> line.item, units |-> QuantityOf(line)]),
          units |-> acc.units + QuantityOf(line)]
    ELSE acc

RECURSIVE FoldLines(_, _, _)
\* for (const orderItem of order.order_items): the first n lines, in order
FoldLines(acc, lines, n) ==
    IF n = 0 THEN acc
    ELSE AddLine(FoldLines(acc, lines, n - 1), lines[n])

RECURSIVE FoldOrders(_, _, _, _)
\* for (const order of allOrders): the orders lo..hi, left to right. The
\* stretch is folded as two consecutive halves; the test on left.units (never
\* negative) has the left half evaluated before the right half is entered,
\* which keeps the evaluation shallow for 2000 orders.
FoldOrders(acc, orders, lo, hi) ==
    IF hi < lo THEN acc
    ELSE IF lo = hi
    THEN LET lines == OrderItems(orders[lo]) IN FoldLines(acc, lines, Len(lines))
    ELSE LET mid  == (lo + hi) \div 2
             left == FoldOrders(acc, orders, lo, mid)
         IN  IF left.units >= 0
             THEN FoldOrders(left, orders, mid + 1, hi)
             ELSE left

\* step 4 of the handler: the itemSales fold, then itemIds = Object.keys(itemSales)
SalesFold ==
    /\ sPc = "fold"
    /\ LET r == FoldOrders([obj |-> <<>>, units |-> 0], allOrders, 1, Len(allOrders)) IN
        /\ itemSales' = r.obj
        /\ totalUnits' = r.units
        /\ itemIds' = [p \in 1..Len(r.obj) |-> r.obj[p].id]
    /\ sPc' = "batches"
    /\ UNCHANGED <<fvars, upvars, accessToken, userStatus, allOrders, offset,
                   hasMore, totalFound, failedAttempts, results, authRejected,
                   requestedOffsets, pageRepeated,
                   salesBySKU, processedItems, batchI, skuBatchesFailed,
                   skuEntriesRead, sResponse>>

Slice_overlap(seq, i) == SubSeq(seq, Max(i, 1), Min(i + BatchSize, Len(seq)))
Slice_short(seq, i) == SubSeq(seq, i + 1, Min(i + BatchSize - 1, Len(seq)))
\* itemIds.slice(i, i + 20)
Slice(seq, i) == SubSeq(seq, i + 1, Min(i + BatchSize, Len(seq)))

\* NextResponse.json({ salesBySKU, totalOrders, totalUnitsAllSKUs,
\* totalItemsWithSales, periodDays, dateFrom, dateTo }); the answer of
\* src/app/api/sales/route.ts has no totalItemsWithSales
SalesOk(bySku, orders, units, processed) ==
    IF salesRoute = "part_001"
    THEN [status |-> 200, salesBySKU |-> bySku, totalOrders |-> orders,
          totalUnitsAllSKUs |-> units, totalItemsWithSales |-> processed]
    ELSE [status |-> 200, salesBySKU |-> bySku, totalOrders |-> orders,
          totalUnitsAllSKUs |-> units]

\* for (let i = 0; i < itemIds.length; i += 20): request the batch, or respond
SalesBatchHead ==
    /\ sPc = "batches"
    /\ IF batchI < Len(itemIds)
       THEN /\ SalesFetch(DefaultRetries, SalesDelayMs)
            /\ detailLog' = Append(detailLog, Slice(itemIds, batchI))
            /\ sPc' = "batch"
            /\ UNCHANGED sResponse
       ELSE /\ sResponse' = SalesOk(salesBySKU, Len(allOrders), totalUnits,
                                    processedItems)
            /\ sPc' = "done"
            /\ UNCHANGED <<fvars, detailLog>>
    /\ UNCHANGED <<upvars, accessToken, userStatus, allOrders, offset, hasMore,
                   totalFound, failedAttempts, results, authRejected,
                   requestedOffsets, pageRepeated, itemSales,
                   totalUnits, itemIds, salesBySKU, processedItems, batchI, skuBatchesFailed,
                   skuEntriesRead>>

\* const sku = skuAttribute?.value_name || 'SIN-SKU'
SalesSku(id) == IF ItemSkuValue(id) = NoSku THEN "SIN-SKU" ELSE ItemSkuValue(id)

AddItem_uncounted(acc, id) ==
    IF ItemCode(id) = 200 /\ ItemHasBody(id)
    THEN [bySku |-> [s \in DOMAIN acc.bySku \cup {SalesSku(id)} |->
                       IF s = SalesSku(id)
                       THEN (IF s \in DOMAIN acc.bySku THEN acc.bySku[s] ELSE 0)
                            + Units(itemSales, id)
                       ELSE acc.bySku[s]],
          processed |-> acc.processed]
    ELSE acc
AddItem_overwrite(acc, id) ==
    IF ItemCode(id) = 200 /\ ItemHasBody(id)
    THEN [bySku |-> [s \in DOMAIN acc.bySku \cup {SalesSku(id)} |->
                       IF s = SalesSku(id) THEN Units(itemSales, id) ELSE acc.bySku[s]],
          processed |-> acc.processed + 1]
    ELSE acc
\* one entry of the multi-get answer: if (item.code === 200 && item.body) {...}
AddItem(acc, id) ==
    IF ItemCode(id) = 200 /\ ItemHasBody(id)
    THEN LET sku   == SalesSku(id)
             units == Units(itemSales, id)
         IN [bySku |-> [s \in DOMAIN acc.bySku \cup {sku} |->
                          IF s = sku
                          THEN (IF s \in DOMAIN acc.bySku THEN acc.bySku[s] ELSE 0) + units
                          ELSE acc.bySku[s]],
             processed |-> acc.processed + 1]
    ELSE acc

RECURSIVE FoldItems_allButFirst(_, _, _)
FoldItems_allButFirst(acc, batch, n) ==
    IF n <= 1 THEN acc
    ELSE AddItem(FoldItems_allButFirst(acc, batch, n - 1), batch[n])
RECURSIVE FoldItems(_, _, _)
\* for (const item of items): the first n entries of the answer, in order
FoldItems(acc, batch, n) ==
    IF n = 0 THEN acc
    ELSE AddItem(FoldItems(acc, batch, n - 1), batch[n])

\* the number of entries of the answer for a batch that the loop
\* for (const item of items) gets through: all of them, or those before the
\* first null entry, on which item.code throws
EntriesRead(batch) ==
    IF \E k \in 1..Len(batch) : batch[k] \in upNullEntries
    THEN (CHOOSE k \in 1..Len(batch) :
             /\ batch[k] \in upNullEntries
             /\ \A j \in 1..(k - 1) : batch[j] \notin upNullEntries) - 1
    ELSE Len(batch)

\* the body of the batch loop after the request returned or threw. In
\* src/app/api/sales/route.ts the loop has no try: a rejected request and a
\* null entry (item.code throws) end in the handler's catch
SalesBatchDone ==
    /\ sPc = "batch"
    /\ FetchFinished
    /\ IF fPc = "returned" /\ IsOk(fResp)
       THEN LET batch == Slice(itemIds, batchI)
                r == FoldItems([bySku |-> salesBySKU, processed |-> processedItems],
                               batch, EntriesRead(batch)) IN
            /\ salesBySKU' = r.bySku
            /\ processedItems' = r.processed
            /\ skuEntriesRead' =
                   skuEntriesRead \cup ((batchI + 1)..(batchI + EntriesRead(batch)))
            /\ skuBatchesFailed' = IF EntriesRead(batch) < Len(batch)
                                   THEN skuBatchesFailed \cup {batchI}  \* the catch
                                   ELSE skuBatchesFailed
            /\ IF salesRoute = "route.ts" /\ EntriesRead(batch) < Len(batch)
               THEN /\ sResponse' = SalesError500
                    /\ sPc' = "done"
                    /\ UNCHANGED batchI
               ELSE /\ batchI' = batchI + BatchSize
                    /\ sPc' = "batches"
                    /\ UNCHANGED sResponse
       ELSE \* else branch, or the catch
            /\ skuBatchesFailed' = skuBatchesFailed \cup {batchI}
            /\ UNCHANGED <<salesBySKU, processedItems, skuEntriesRead>>
            /\ IF salesRoute = "route.ts" /\ fPc = "thrown"
               THEN /\ sResponse' = SalesError500
                    /\ sPc' = "done"
                    /\ UNCHANGED batchI
               ELSE /\ batchI' = batchI + BatchSize
                    /\ sPc' = "batches"
                    /\ UNCHANGED sResponse
    /\ FetchReset
    /\ UNCHANGED <<upvars, accessToken, userStatus, allOrders, offset, hasMore,
                   totalFound, failedAttempts, results, authRejected,
                   requestedOffsets, pageRepeated, itemSales,
                   totalUnits, itemIds>>

-----------------------------------------------------------------------------
(* The catalog route: GET /api/products                                    *)

\* sku of a product without SELLER_SKU value: null
NullSku == "null"

\* the limit parameter of the items/search request: the route's own
SearchLimit == pLimit

\* itemsData.results of the search at offset off: the ids off, off+1, ... of
\* the catalog (items are numbered from 0), as many as asked for and at most
\* the 50 the upstream returns per page; the page stops where the catalog
\* does, which is before paging.total when the declared total is stale
CatalogIds(off) ==
    LET n == Min(Min(SearchLimit, limit), Max(0, catTotal - catStale - off))
    IN  [j \in 1..n |-> off + j - 1]

\* item.code / item.body of the multi-get entry of a catalog item
EntryCode(id) == IF id \in catSkipped THEN 404 ELSE 200
EntryHasBody(id) == id \notin catNoBody

Hydrated_codeOnly(id) == EntryCode(id) = 200
\* if (item.code === 200 && item.body)
Hydrated(id) == EntryCode(id) = 200 /\ EntryHasBody(id)

\* const sku = skuAttribute?.value_name || null
ProductSku(id) == IF ItemSkuValue(id) = NoSku THEN NullSku ELSE ItemSkuValue(id)

\* productData.shipping?.logistic_type of an item without one
NullLogistic == "null"

\* the shipping object of the record of the revision in src/unnamed/part_000:
\* { mode: shipping?.mode || 'not_specified', free_shipping:
\* shipping?.free_shipping || false, logistic_type: shipping?.logistic_type
\* || null }, for the upstream data of the catalog's items
ItemShipping(id) ==
    [mode |-> IF id % 8 = 7 THEN "not_specified" ELSE "me2",
     free_shipping |-> (id % 2 = 0),
     logistic_type |-> IF id % 2 = 0 THEN "fulfillment"
                       ELSE IF id % 4 = 1 THEN "xd_drop_off"
                       ELSE NullLogistic]

\* the record pushed for a hydrated entry: { id, ..., fulfillment, sku } in
\* src/app/api/products/route.ts, { id, ..., shipping, sku } in the revision
\* of src/unnamed/part_000
ProductRecord(id) ==
    IF productsRoute = "route.ts"
    THEN [id |-> id, fulfillment |-> ItemShipping(id).logistic_type,
          sku |-> ProductSku(id)]
    ELSE [id |-> id, shipping |-> ItemShipping(id), sku |-> ProductSku(id)]

\* products.push({ id, ..., sku }) for the hydrated entries of one answer
HydrateBatch(batch) ==
    LET kept == SelectSeq(batch, LAMBDA id : Hydrated(id))
    IN  [k \in 1..Len(kept) |-> ProductRecord(kept[k])]

\* catch (error) of the handler: 500 'Error obteniendo productos'
ProductsError500 == [status |-> 500, error |-> "Error obteniendo productos"]

\* NextResponse.json({ products, total, offset, limit, results, paging }) in
\* src/app/api/products/route.ts, NextResponse.json({ products, total,
\* offset, limit }) in the revision of src/unnamed/part_000
ProductsOk(list, count, off) ==
    IF productsRoute = "route.ts"
    THEN [status |-> 200, products |-> list, total |-> count,
          offset |-> off, limit |-> pLimit, results |-> list,
          paging |-> [total |-> count, offset |-> off, limit |-> pLimit]]
    ELSE [status |-> 200, products |-> list, total |-> count,
          offset |-> off, limit |-> pLimit]

\* the handler's locals before the handler runs
ProductsLocalsInit ==
    /\ pItemIds = <<>>
    /\ pTotal = 0
    /\ pProducts = <<>>
    /\ pBatchI = 0
    /\ pSkippedBatches = {}
    /\ pResponse = [status |-> 0]

ProductsNotStarted ==
    /\ pPc = "off"
    /\ pOffset = 0
    /\ pLimit = 50
    /\ ProductsLocalsInit

ProductsGet_noCookieCheck ==
    /\ pPc = "start"
    /\ FetchCall(DefaultRetries, DefaultDelayMs)
    /\ pPc' = "user"
    /\ UNCHANGED <<pResponse, pOffset, pLimit, pItemIds, pTotal, pProducts, pBatchI,
                   pSkippedBatches>>
\* cookie check, then the user lookup through fetchWithRetry (defaults)
ProductsGet ==
    /\ pPc = "start"
    /\ IF ~accessToken
       THEN /\ pResponse' = [status |-> 401, error |-> "No autenticado"]
            /\ pPc' = "done"
            /\ UNCHANGED fvars
       ELSE /\ FetchCall(DefaultRetries, DefaultDelayMs)
            /\ pPc' = "user"
            /\ UNCHANGED pResponse
    /\ UNCHANGED <<pOffset, pLimit, pItemIds, pTotal, pProducts, pBatchI,
                   pSkippedBatches>>

\* if (!userResponse.ok) { 401 -> 401; throw }, then the items search; the
\* text of the 401 is 'Token inválido o expirado' in
\* src/app/api/products/route.ts, 'Token inválido' in the revision of
\* src/unnamed/part_000
ProductsUserDone ==
    /\ pPc = "user"
    /\ FetchFinished
    /\ IF fPc = "thrown"
       THEN /\ pResponse' = ProductsError500
            /\ pPc' = "done"
            /\ FetchReset
       ELSE IF ~IsOk(fResp)
       THEN /\ pResponse' = IF fResp = 401
                            THEN [status |-> 401,
                                  error |-> IF productsRoute = "route.ts"
                                            THEN "Token inválido o expirado"
                                            ELSE "Token inválido"]
                            ELSE ProductsError500
            /\ pPc' = "done"
            /\ FetchReset
       ELSE /\ FetchCall(DefaultRetries, DefaultDelayMs)
            /\ pPc' = "search"
            /\ UNCHANGED pResponse
    /\ UNCHANGED <<pOffset, pLimit, pItemIds, pTotal, pProducts, pBatchI,
                   pSkippedBatches>>

\* if (!itemsResponse.ok) throw; itemIds = results, total = paging.total
ProductsSearchDone ==
    /\ pPc = "search"
    /\ FetchFinished
    /\ IF fPc = "thrown" \/ ~IsOk(fResp)
       THEN /\ pResponse' = ProductsError500
            /\ pPc' = "done"
            /\ UNCHANGED <<pItemIds, pTotal>>
       ELSE /\ pItemIds' = CatalogIds(pOffset)
            /\ pTotal' = catTotal
            /\ pPc' = "batches"
            /\ UNCHANGED pResponse
    /\ FetchReset
    /\ UNCHANGED <<pOffset, pLimit, pProducts, pBatchI, pSkippedBatches>>

\* for (let i = 0; i < itemIds.length; i += 20): request the batch, or respond
ProductsBatchHead ==
    /\ pPc = "batches"
    /\ IF pBatchI < Len(pItemIds)
       THEN /\ FetchCall(DefaultRetries, DefaultDelayMs)
            /\ detailLog' = Append(detailLog, Slice(pItemIds, pBatchI))
            /\ pPc' = "batch"
            /\ UNCHANGED pResponse
       ELSE /\ pResponse' = ProductsOk(pProducts, pTotal, pOffset)
            /\ pPc' = "done"
            /\ UNCHANGED <<fvars, detailLog>>
    /\ UNCHANGED <<pOffset, pLimit, pItemIds, pTotal, pProducts, pBatchI,
                   pSkippedBatches>>

\* the body of the detail loop after fetchWithRetry returned or threw
ProductsBatchDone ==
    /\ pPc = "batch"
    /\ FetchFinished
    /\ IF fPc = "thrown"
       THEN \* the detail loop has no try of its own: the handler's catch
            /\ pResponse' = ProductsError500
            /\ pPc' = "done"
            /\ UNCHANGED <<pProducts, pBatchI, pSkippedBatches>>
       ELSE /\ IF fPc = "returned" /\ IsOk(fResp)
               THEN /\ pProducts' = pProducts \o HydrateBatch(Slice(pItemIds, pBatchI))
                    /\ UNCHANGED pSkippedBatches
               ELSE /\ pSkippedBatches' = pSkippedBatches \cup {pBatchI}
                    /\ UNCHANGED pProducts
            /\ pBatchI' = pBatchI + BatchSize
            /\ pPc' = "batches"
            /\ UNCHANGED pResponse
    /\ FetchReset
    /\ UNCHANGED <<pOffset, pLimit, pItemIds, pTotal>>

-----------------------------------------------------------------------------
(* The session: /api/callback sets the cookies, /api/logout deletes them.  *)

\* no auth route has answered yet
NoAuthResponse == ""

\* the session before any auth route has run
NoSession ==
    /\ refreshToken = FALSE
    /\ authResponse = NoAuthResponse

\* no batch of ids has been requested
NoDetailRequests == detailLog = <<>>

\* what oauth/token answers to the exchange of the code: a status and a
\* body (the tokens object, the JSON text null, or a text that is not
\* JSON), or the request fails (NetworkError)
ExchangeOutcomes ==
    [status : {200, 400}, body : {"tokens", "null", "not json"}]
    \cup {[status |-> NetworkError, body |-> "not json"]}

\* the values of the query parameter error explored ("": not present)
ErrorParams == {"", "access_denied", "invalid_scope"}

\* GET /api/callback with the query parameter error, the parameter code
\* present or not, and the outcome of the token exchange. The body is
\* parsed (tokenResponse.json()) before tokenResponse.ok is looked at, and a
\* body that does not parse ends in the catch like a failed request; so
\* does tokens.access_token on the parsed value null of a 2xx answer
OAuthCallback(errorParam, hasCode, exchange) ==
    IF errorParam # ""
    THEN /\ authResponse' = "redirect ?error=" \o errorParam
         /\ UNCHANGED <<accessToken, refreshToken>>
    ELSE IF ~hasCode
    THEN /\ authResponse' = "redirect ?error=no_code"
         /\ UNCHANGED <<accessToken, refreshToken>>
    ELSE IF exchange.status = NetworkError \/ exchange.body = "not json"
    THEN /\ authResponse' = "redirect ?error=server_error"
         /\ UNCHANGED <<accessToken, refreshToken>>
    ELSE IF ~IsOk(exchange.status)
    THEN /\ authResponse' = "redirect ?error=token_exchange_failed"
         /\ UNCHANGED <<accessToken, refreshToken>>
    ELSE IF exchange.body = "null"
    THEN /\ authResponse' = "redirect ?error=server_error"
         /\ UNCHANGED <<accessToken, refreshToken>>
    ELSE /\ accessToken' = TRUE
         /\ refreshToken' = TRUE
         /\ authResponse' = "redirect /dashboard"

\* POST /api/logout
Logout ==
    /\ accessToken' = FALSE
    /\ refreshToken' = FALSE
    /\ authResponse' = "success"

\* the sales route's variables other than the cookie
slvars == <<sPc, userStatus, allOrders, offset, hasMore, totalFound,
            failedAttempts, results, authRejected, requestedOffsets, pageRepeated,
            itemSales, totalUnits, itemIds,
            salesBySKU, processedItems, batchI, skuBatchesFailed,
                   skuEntriesRead, sResponse>>

\* the next GET /api/products arrives, with the same query
ProductsRequest ==
    /\ pPc = "done"
    /\ pPc' = "start"
    /\ pItemIds' = <<>>
    /\ pTotal' = 0
    /\ pProducts' = <<>>
    /\ pBatchI' = 0
    /\ pSkippedBatches' = {}
    /\ detailLog' = <<>>
    /\ UNCHANGED <<pOffset, pLimit, pResponse>>

-----------------------------------------------------------------------------
(* The dashboard component: fetchProducts and loadMoreProducts, against    *)
(* /api/products.                                                          *)

\* largest number of /api/products requests of one mount not answered 200
MaxPageFaults == 1

\* const batchSize = 50
batchSize == 50
\* const initialLoadLimit = 500
initialLoadLimit == 500
\* const loadMoreLimit = 500
loadMoreLimit == 500

\* useState<string | null>(null)
NoError == ""

\* the catalogs explored: the total, for 600 items also one item whose
\* detail entry is not a 200, 100 items the first 50 of which have none, and
\* 120 items the last five of which the search no longer returns
CatalogCases ==
    [total : {0, 120, 600}, skipped : {{}}, stale : {0}]
    \cup [total : {600}, skipped : {{7}}, stale : {0}]
    \cup [total : {100}, skipped : {0..49}, stale : {0}]
    \cup [total : {120}, skipped : {{}}, stale : {5}]

\* what /api/products answers: a status, or the request fails (NetworkError)
ApiResponses == {200, 401, 500, NetworkError}

CeilDiv(n, p) == (n + p - 1) \div p

\* data.products of /api/products?offset=off&limit=50: the hydrated items of
\* the upstream page, in upstream order (items are numbered from 0)
CatalogPage(off) ==
    LET n == Min(batchSize, Max(0, catTotal - catStale - off))
    IN  SelectSeq([j \in 1..n |-> off + j - 1], LAMBDA id : Hydrated(id))

\* the component's state after construction (useState initial values)
DashLocalsInit ==
    /\ fpI = 0
    /\ allProducts = <<>>
    /\ products = <<>>
    /\ filteredProducts = <<>>
    /\ loading = TRUE
    /\ loadingMore = FALSE
    /\ error = NoError
    /\ total = 0
    /\ redirected = FALSE
    /\ lmPc = "idle"
    /\ lmI = 0
    /\ currentCount = 0
    /\ moreProducts = <<>>
    /\ requestLog = <<>>
    /\ pageFaults = 0
    /\ loadingSales = FALSE
    /\ dashSalesBySKU = <<>>
    /\ currentPage = 1
    /\ itemsPerPage = 50
    /\ searchTerm = ""
    /\ fulfillmentFilter = "todos"
    /\ statusFilter = "todos"
    /\ effectError = FALSE
    /\ renderError = FALSE
    /\ logoutPending = 0

\* what /api/sales answers when it is never asked
NoAnswer == [status |-> NoResponse, salesBySKU |-> <<>>]

DashNotMounted ==
    /\ catTotal = 0
    /\ catSkipped = {}
    /\ catNoBody = {}
    /\ catStale = 0
    /\ revision = "all"
    /\ fpPc = "off"
    /\ fsPc = "off"
    /\ salesAnswer = NoAnswer
    /\ DashLocalsInit

\* a response other than 200 uses up the fault budget of the mount
Answer(resp) ==
    /\ resp # 200 => pageFaults < MaxPageFaults
    /\ pageFaults' = IF resp = 200 THEN pageFaults ELSE pageFaults + 1

\* the bound of fetchProducts' loop: Math.ceil(totalProducts / batchSize) in
\* dashboard/page.tsx, Math.ceil(initialLoadLimit / batchSize) in the
\* revision with loadMoreProducts
InitialBatches(totalProducts) ==
    IF revision = "loadmore"
    THEN CeilDiv(initialLoadLimit, batchSize)
    ELSE CeilDiv(totalProducts, batchSize)

\* filteredProducts.slice(startIndex, endIndex) of paginateProducts, as a
\* number of rows: startIndex = (currentPage - 1) * itemsPerPage, endIndex =
\* startIndex + itemsPerPage; slice counts a negative index from the end
PaginatedCount(list, page, size) ==
    LET SliceIndex(x) == IF x < 0 THEN Max(Len(list) + x, 0) ELSE Min(x, Len(list))
    IN  Max(0, SliceIndex((page - 1) * size + size) - SliceIndex((page - 1) * size))

\* the render gets to the table: not the spinner (if (loading)), not the
\* error view (if (error)), not left by router.push, not torn down by an
\* effect that threw
TableRendered ==
    /\ fpPc = "done"
    /\ ~loading
    /\ error = NoError
    /\ ~redirected
    /\ ~effectError

\* the table is on screen: rendered and not torn down by a render that threw
TableShown == TableRendered /\ ~renderError

\* rendering a row of the table throws a TypeError: the row reads
\* product.attributes.find in the revision with loadMoreProducts, and no
\* record of /api/products has attributes; it reads
\* getFulfillmentType(product.shipping) in dashboard/page.tsx, and the
\* record of src/app/api/products/route.ts has no shipping
RowThrows == revision = "loadmore" \/ productsRoute = "route.ts"

\* the render that follows a step: a table with a row that throws tears the
\* component down
RenderAfter ==
    renderError' =
        (renderError \/ (/\ RowThrows
                         /\ TableRendered'
                         /\ PaginatedCount(filteredProducts', currentPage',
                                           itemsPerPage') > 0))

\* the renders that follow setFilteredProducts(list) of loadMoreProducts:
\* paginateProducts first slices that list at the page of the render it
\* runs after, and then the list and page the filter effect has set
RenderAfterSet(list) ==
    renderError' =
        (renderError \/ (/\ RowThrows
                         /\ TableRendered'
                         /\ \/ PaginatedCount(list, currentPage, itemsPerPage) > 0
                            \/ PaginatedCount(filteredProducts', currentPage',
                                              itemsPerPage') > 0))

\* useEffect(() => { fetchProducts(); fetchSales(); }, []): the mount runs
\* fetchProducts() up to its first await (setLoading(true), GET
\* /api/products?offset=0&limit=50) and, in the same step, fetchSales() up to
\* its await (setLoadingSales(true), GET /api/sales); both requests are then
\* in flight
MountEffect ==
    /\ fpPc = "start"
    /\ fsPc = "start"
    /\ loading' = TRUE
    /\ requestLog' = Append(requestLog, 0)
    /\ fpPc' = "first"
    /\ loadingSales' = TRUE
    /\ fsPc' = "await"
    /\ UNCHANGED <<catTotal, catSkipped, catNoBody, revision, fpI, allProducts, products,
                   filteredProducts, loadingMore, error, total, redirected,
                   lmPc, lmI, currentCount, moreProducts, pageFaults>>
    /\ UNCHANGED <<dashSalesBySKU, salesAnswer, tvars, renderError>>

FetchProductsEnd_keepsLoadingMore(all) ==
    /\ products' = all
    /\ filteredProducts' = all
    /\ loading' = FALSE
    /\ UNCHANGED loadingMore
    /\ fpPc' = "done"
\* the end of fetchProducts' try block, then finally
FetchProductsEnd(all) ==
    /\ products' = all
    /\ filteredProducts' = all
    /\ loading' = FALSE
    /\ loadingMore' = FALSE
    /\ fpPc' = "done"

\* the loop goes on to batch i: dashboard/page.tsx sends the request at
\* once, the revision with loadMoreProducts first awaits a timer of 1000 ms
NextPageRequest(i) ==
    IF revision = "loadmore"
    THEN /\ fpPc' = "timer"
         /\ UNCHANGED requestLog
    ELSE /\ fpPc' = "pages"
         /\ requestLog' = Append(requestLog, i * batchSize)

\* catch (err) { setError(...) } finally { ... }
FetchProductsCatch(message) ==
    /\ error' = message
    /\ loading' = FALSE
    /\ loadingMore' = FALSE
    /\ fpPc' = "done"

\* fetchProducts from the answer to the initial request up to its next await
FetchProductsFirst(resp) ==
    /\ fpPc = "first"
    /\ Answer(resp)
    /\ IF resp = NetworkError
       THEN /\ FetchProductsCatch("fetch failed")
            /\ UNCHANGED <<fpI, allProducts, products, filteredProducts, total,
                           redirected, requestLog>>
       ELSE IF resp = 401
       THEN \* router.push('/'); return; finally
            /\ redirected' = TRUE
            /\ loading' = FALSE
            /\ loadingMore' = FALSE
            /\ fpPc' = "done"
            /\ UNCHANGED <<fpI, allProducts, products, filteredProducts, total,
                           error, requestLog>>
       ELSE IF ~IsOk(resp)
       THEN /\ FetchProductsCatch("Error cargando productos")
            /\ UNCHANGED <<fpI, allProducts, products, filteredProducts, total,
                           redirected, requestLog>>
       ELSE /\ total' = catTotal
            /\ allProducts' = CatalogPage(0)
            /\ fpI' = 1
            /\ IF 1 < InitialBatches(catTotal)
               THEN /\ NextPageRequest(1)
                    /\ UNCHANGED <<products, filteredProducts, loading, loadingMore>>
               ELSE /\ FetchProductsEnd(CatalogPage(0))
                    /\ UNCHANGED requestLog
            /\ UNCHANGED <<error, redirected>>
    /\ UNCHANGED <<catTotal, catSkipped, catNoBody, revision, lmPc, lmI, currentCount,
                   moreProducts>>
    /\ UNCHANGED <<jvars, tvars>>
    /\ RenderAfter

\* fetchProducts from the answer to the request of batch i up to its next await
FetchProductsPage(resp) ==
    /\ fpPc = "pages"
    /\ Answer(resp)
    /\ IF resp = NetworkError
       THEN /\ FetchProductsCatch("fetch failed")
            /\ UNCHANGED <<fpI, allProducts, products, filteredProducts, requestLog>>
       ELSE LET all == IF IsOk(resp)
                       THEN allProducts \o CatalogPage(fpI * batchSize)
                       ELSE allProducts
            IN  /\ allProducts' = all
                /\ fpI' = fpI + 1
                /\ IF fpI + 1 < InitialBatches(total)
                   THEN /\ NextPageRequest(fpI + 1)
                        /\ loadingMore' = (loadingMore \/ IsOk(resp))
                        /\ UNCHANGED <<products, filteredProducts, loading>>
                   ELSE /\ FetchProductsEnd(all)
                        /\ UNCHANGED requestLog
                /\ UNCHANGED error
    /\ UNCHANGED <<catTotal, catSkipped, catNoBody, revision, total, redirected, lmPc, lmI,
                   currentCount, moreProducts>>
    /\ UNCHANGED <<jvars, tvars>>
    /\ RenderAfter

\* the 1000 ms timer of the loop of the revision with loadMoreProducts has
\* fired: the request of batch i is sent
FetchProductsTimer ==
    /\ fpPc = "timer"
    /\ requestLog' = Append(requestLog, fpI * batchSize)
    /\ fpPc' = "pages"
    /\ UNCHANGED <<catTotal, catSkipped, catNoBody, revision, fpI, allProducts, products,
                   filteredProducts, loading, loadingMore, error, total, redirected,
                   lmPc, lmI, currentCount, moreProducts, pageFaults>>
    /\ UNCHANGED <<jvars, tvars, renderError>>

\* the SKU shown when the row has none
NoSellerSku == "-"
\* the SKU exported and rendered by the revision with loadMoreProducts when
\* the row has none
NotAvailable == "N/A"
\* product.attributes.find on a record without attributes
TypeError == "TypeError"
\* a row that could not be rendered
RenderFailed == -1

\* the value_name of the first SELLER_SKU attribute, "" when there is none
SellerSkuAttribute(attributes) ==
    LET found == SelectSeq(attributes, LAMBDA attr : attr.id = "SELLER_SKU")
    IN  IF Len(found) > 0 THEN found[1].value_name ELSE ""

\* getSellerSKU of dashboard/page.tsx: '-' without attributes (!attributes
\* || attributes.length === 0) or without a SELLER_SKU attribute, else the
\* value_name of the attribute found, the empty string included
getSellerSKU(product) ==
    IF "attributes" \notin DOMAIN product THEN NoSellerSku
    ELSE IF Len(product.attributes) = 0 THEN NoSellerSku
    ELSE IF \A k \in 1..Len(product.attributes) :
                product.attributes[k].id # "SELLER_SKU" THEN NoSellerSku
    ELSE SellerSkuAttribute(product.attributes)

\* the search texts typed: none, a blank, a tab, a word in lower and in upper
\* case, and the beginning of an id
SearchTerms == {"", " ", "\t", "kit", "KIT", "mla1"}
\* product.status of the catalog's items
ItemStatus(id) == IF id % 4 = 1 THEN "paused" ELSE "active"
\* product.title of the catalog's items: every tenth title has the word
ItemTitle(id) == IF id % 10 = 0 THEN "Kit USB" ELSE "Cable USB"
\* product.id of the catalog's items
ItemIdText(id) == "MLA" \o ToString(id)
\* String.prototype.includes
Includes(str, part) ==
    \E k \in 0..(Len(str) - Len(part)) : SubSeq(str, k + 1, k + Len(part)) = part

\* the lower-case letter of every upper-case letter a string of the model
\* can hold (A-Z and the letters of Latin-1)
LowerCaseOf ==
    "A" :> "a" @@ "B" :> "b" @@ "C" :> "c" @@ "D" :> "d" @@ "E" :> "e" @@
    "F" :> "f" @@ "G" :> "g" @@ "H" :> "h" @@ "I" :> "i" @@ "J" :> "j" @@
    "K" :> "k" @@ "L" :> "l" @@ "M" :> "m" @@ "N" :> "n" @@ "O" :> "o" @@
    "P" :> "p" @@ "Q" :> "q" @@ "R" :> "r" @@ "S" :> "s" @@ "T" :> "t" @@
    "U" :> "u" @@ "V" :> "v" @@ "W" :> "w" @@ "X" :> "x" @@ "Y" :> "y" @@
    "Z" :> "z" @@ "À" :> "à" @@ "Á" :> "á" @@ "Â" :> "â" @@ "Ã" :> "ã" @@
    "Ä" :> "ä" @@ "Å" :> "å" @@ "Æ" :> "æ" @@ "Ç" :> "ç" @@ "È" :> "è" @@
    "É" :> "é" @@ "Ê" :> "ê" @@ "Ë" :> "ë" @@ "Ì" :> "ì" @@ "Í" :> "í" @@
    "Î" :> "î" @@ "Ï" :> "ï" @@ "Ð" :> "ð" @@ "Ñ" :> "ñ" @@ "Ò" :> "ò" @@
    "Ó" :> "ó" @@ "Ô" :> "ô" @@ "Õ" :> "õ" @@ "Ö" :> "ö" @@ "Ø" :> "ø" @@
    "Ù" :> "ù" @@ "Ú" :> "ú" @@ "Û" :> "û" @@ "Ü" :> "ü" @@ "Ý" :> "ý" @@
    "Þ" :> "þ"
\* String.prototype.toLowerCase
RECURSIVE ToLowerCase(_)
ToLowerCase(str) ==
    IF str = "" THEN ""
    ELSE LET c == SubSeq(str, 1, 1)
         IN  (IF c \in DOMAIN LowerCaseOf THEN LowerCaseOf[c] ELSE c)
                \o ToLowerCase(SubSeq(str, 2, Len(str)))

\* String.prototype.trim: strips the white space and the line terminators
\* at both ends; of the characters a string of the model can hold these are
\* space, tab, line feed, carriage return, form feed, vertical tab and the
\* no-break space
RECURSIVE Trim(_)
Trim(str) ==
    LET WhiteSpace == {" ", "\t", "\n", "\r", "\f", "", " "}
    IN  IF Len(str) > 0 /\ SubSeq(str, 1, 1) \in WhiteSpace
        THEN Trim(SubSeq(str, 2, Len(str)))
        ELSE IF Len(str) > 0 /\ SubSeq(str, Len(str), Len(str)) \in WhiteSpace
        THEN Trim(SubSeq(str, 1, Len(str) - 1))
        ELSE str

\* the text filter is applied: if (searchTerm.trim()) in dashboard/page.tsx,
\* if (searchTerm) in the revision with loadMoreProducts
SearchApplies(term) ==
    IF revision = "loadmore" THEN term # "" ELSE Trim(term) # ""

\* the items of the catalogs the table is searched in
SearchedIds == UNION {0..(c.total - 1) : c \in CatalogCases}
\* product.title.toLowerCase() and product.id.toLowerCase() of these items,
\* as tables (@@ <<>> has TLC compute the table once and keep it)
LowerCaseTitle == [id \in SearchedIds |-> ToLowerCase(ItemTitle(id))] @@ <<>>
LowerCaseId == [id \in SearchedIds |-> ToLowerCase(ItemIdText(id))] @@ <<>>

\* the callback of the text filter on the record of item id: term is looked
\* for in the title, the id and the SKU in lower case. In dashboard/page.tsx
\* the SKU is getSellerSKU(product) and '-' does not count; in the revision
\* with loadMoreProducts it is
\* product.attributes.find(...)?.value_name || '', which throws on a record
\* without attributes (FilterThrows)
SearchMatches(id, term) ==
    LET product == ProductRecord(id)
    IN  \/ Includes(LowerCaseTitle[id], term)
        \/ Includes(LowerCaseId[id], term)
        \/ IF revision = "loadmore"
           THEN /\ "attributes" \in DOMAIN product
                /\ Includes(ToLowerCase(SellerSkuAttribute(product.attributes)), term)
           ELSE /\ getSellerSKU(product) # NoSellerSku
                /\ Includes(ToLowerCase(getSellerSKU(product)), term)

\* the list after the text filter: const term = searchTerm.toLowerCase()
\* (lower case, not trimmed), then filtered.filter(callback)
AfterSearch(list, searchText) ==
    IF SearchApplies(searchText)
    THEN LET term == ToLowerCase(searchText)
         IN  SelectSeq(list, LAMBDA id : SearchMatches(id, term))
    ELSE list

\* the switch of the fulfillment filter reads product.shipping: every case
\* but the default one ('me' in dashboard/page.tsx, 'mercadoenvios' in the
\* revision with loadMoreProducts)
ReadsShipping(fulfillment) ==
    fulfillment \in {"full", "flex", "normal",
                     IF revision = "loadmore" THEN "mercadoenvios" ELSE "me"}

\* filterProducts throws a TypeError: the callback of the text filter of the
\* revision with loadMoreProducts reads product.attributes.find, undefined
\* in the records of /api/products, and the callback of the fulfillment
\* filter reads product.shipping.logistic_type or .mode, undefined in the
\* records of src/app/api/products/route.ts; a callback runs only on a list
\* that is not empty
FilterThrows(list, term, fulfillment) ==
    \/ revision = "loadmore" /\ SearchApplies(term) /\ Len(list) > 0
    \/ /\ productsRoute = "route.ts"
       /\ fulfillment # "todos"
       /\ ReadsShipping(fulfillment)
       /\ Len(AfterSearch(list, term)) > 0

\* the callback of the fulfillment filter on a record with shipping
ShippingMatches(id, fulfillment) ==
    LET shipping == ItemShipping(id) IN
    IF ~ReadsShipping(fulfillment) THEN TRUE
    ELSE IF fulfillment = "full" THEN shipping.logistic_type = "fulfillment"
    ELSE IF fulfillment = "flex" THEN shipping.logistic_type = "xd_drop_off"
    ELSE IF fulfillment = "normal"
    THEN \/ shipping.mode = "not_specified"
         \/ shipping.logistic_type = NullLogistic /\ shipping.mode # "me2"
    ELSE shipping.mode = "me2"

\* the list filterProducts hands to setFilteredProducts: the text filter,
\* the fulfillment filter, the status filter
FilterProducts(list, term, fulfillment, status) ==
    LET byShipping ==
            IF fulfillment = "todos" THEN AfterSearch(list, term)
            ELSE SelectSeq(AfterSearch(list, term),
                           LAMBDA id : ShippingMatches(id, fulfillment))
    IN  IF status = "todos" THEN byShipping
        ELSE SelectSeq(byShipping, LAMBDA id : ItemStatus(id) = status)

\* useEffect(() => { filterProducts() }, [searchTerm, products,
\* fulfillmentFilter, statusFilter]) after a render in which one of them
\* changed: setFilteredProducts(filtered), in the revision with
\* loadMoreProducts followed by setCurrentPage(1); shown is filteredProducts
\* as the render left it, which stays when filterProducts throws
FilterEffect(list, shown, term, fulfillment, status) ==
    IF FilterThrows(list, term, fulfillment)
    THEN /\ effectError' = TRUE
         /\ filteredProducts' = shown
         /\ UNCHANGED currentPage
    ELSE /\ filteredProducts' = FilterProducts(list, term, fulfillment, status)
         /\ currentPage' = IF revision = "loadmore" THEN 1 ELSE currentPage
         /\ UNCHANGED effectError

\* finally { setLoadingMore(false) } of loadMoreProducts
LoadMoreEnd ==
    /\ loadingMore' = FALSE
    /\ lmPc' = "idle"

\* const offset = currentCount + (i * batchSize)
LoadMoreOffset(count, i) == count + (i * batchSize)

\* the 'Cargar más' button (shown once loaded, without error, while
\* products.length < total): loadMoreProducts() runs up to its first await
LoadMoreStart ==
    /\ revision = "loadmore"
    /\ TableShown
    /\ Len(products) < total
    /\ ~loadingMore
    /\ lmPc = "idle"
    /\ currentCount' = Len(products)
    /\ moreProducts' = <<>>
    /\ lmI' = 0
    /\ IF LoadMoreOffset(Len(products), 0) >= total
       THEN /\ LoadMoreEnd
            /\ UNCHANGED requestLog
       ELSE /\ loadingMore' = TRUE
            /\ lmPc' = "timer"
            /\ UNCHANGED requestLog
    /\ UNCHANGED <<catTotal, catSkipped, catNoBody, revision, fpPc, fpI, allProducts,
                   products, filteredProducts, loading, error, total,
                   redirected, pageFaults>>
    /\ UNCHANGED <<jvars, tvars, renderError>>

\* the 1000 ms timer of loadMoreProducts' loop has fired: the request of
\* batch i is sent
LoadMoreTimer ==
    /\ lmPc = "timer"
    /\ requestLog' = Append(requestLog, LoadMoreOffset(currentCount, lmI))
    /\ lmPc' = "pages"
    /\ UNCHANGED <<catTotal, catSkipped, catNoBody, revision, fpPc, fpI, allProducts,
                   products, filteredProducts, loading, loadingMore, error, total,
                   redirected, lmI, currentCount, moreProducts, pageFaults>>
    /\ UNCHANGED <<jvars, tvars, renderError>>

\* loadMoreProducts from the answer to the request of batch i up to its next await
LoadMorePage(resp) ==
    /\ lmPc = "pages"
    /\ Answer(resp)
    /\ UNCHANGED <<catTotal, catSkipped, catNoBody, revision, fpPc, fpI, allProducts,
                   loading, total, redirected, currentCount>>
    /\ UNCHANGED jvars
    /\ UNCHANGED <<itemsPerPage, searchTerm, fulfillmentFilter, statusFilter, logoutPending>>
    /\ IF resp = NetworkError
       THEN /\ error' = "fetch failed"
            /\ LoadMoreEnd
            /\ UNCHANGED <<lmI, moreProducts, products, filteredProducts, requestLog,
                           currentPage, effectError, renderError>>
       ELSE LET more == IF IsOk(resp)
                        THEN moreProducts \o CatalogPage(LoadMoreOffset(currentCount, lmI))
                        ELSE moreProducts
            IN  /\ moreProducts' = more
                /\ lmI' = lmI + 1
                /\ UNCHANGED error
                /\ IF /\ lmI + 1 < CeilDiv(loadMoreLimit, batchSize)
                      /\ LoadMoreOffset(currentCount, lmI + 1) < total
                   THEN /\ lmPc' = "timer"
                        /\ UNCHANGED <<requestLog, loadingMore, products, filteredProducts,
                                       currentPage, effectError, renderError>>
                   ELSE /\ products' = products \o more
                        /\ FilterEffect(products \o more, products \o more, searchTerm,
                                        fulfillmentFilter, statusFilter)
                        /\ LoadMoreEnd
                        /\ UNCHANGED requestLog
                        /\ RenderAfterSet(products \o more)

\* the part of the component's state that fetchProducts and loadMoreProducts
\* work on, with the catalog they read
cvars == <<catTotal, catSkipped, catNoBody, revision, fpPc, fpI, allProducts, products,
           filteredProducts, loading, loadingMore, error, total, redirected,
           lmPc, lmI, currentCount, moreProducts, requestLog, pageFaults>>

-----------------------------------------------------------------------------
(* The table of the dashboard: filters, page size and page navigation.     *)

\* largest distance from page 0 the navigation is followed to
MaxPageSteps == 13

\* the options of the fulfillment and status selects that are chosen; the
\* Mercado Envíos option has the value 'me' in dashboard/page.tsx and
\* 'mercadoenvios' in the revision with loadMoreProducts
FulfillmentFilters ==
    {"todos", "full", IF revision = "loadmore" THEN "mercadoenvios" ELSE "me"}
StatusFilters == {"todos", "active", "paused", "closed"}
\* the options of the page-size select: 50, 100, 200, and 500 in
\* dashboard/page.tsx
PageSizeOptions ==
    IF revision = "loadmore" THEN {50, 100, 200} ELSE {50, 100, 200, 500}

\* the component's state apart from filteredProducts and the table's own
uivars == <<catTotal, catSkipped, catNoBody, revision, fpPc, fpI, allProducts, products,
            loading, loadingMore, error, total, redirected,
            lmPc, lmI, currentCount, moreProducts, requestLog, pageFaults>>

\* const totalPages = Math.ceil(filteredProducts.length / itemsPerPage)
TotalPages == CeilDiv(Len(filteredProducts), itemsPerPage)

\* onChange of the search box: setSearchTerm, then the filter effect
SetSearchTerm(term) ==
    /\ TableShown
    /\ term # searchTerm
    /\ searchTerm' = term
    /\ FilterEffect(products, filteredProducts, term, fulfillmentFilter, statusFilter)
    /\ UNCHANGED <<uivars, jvars, itemsPerPage, fulfillmentFilter, statusFilter, logoutPending>>
    /\ RenderAfter

\* onChange of the fulfillment select: setFulfillmentFilter, then the effect
SetFulfillmentFilter(value) ==
    /\ TableShown
    /\ value # fulfillmentFilter
    /\ fulfillmentFilter' = value
    /\ FilterEffect(products, filteredProducts, searchTerm, value, statusFilter)
    /\ UNCHANGED <<uivars, jvars, itemsPerPage, searchTerm, statusFilter, logoutPending>>
    /\ RenderAfter

\* onChange of the status select: setStatusFilter, then the effect
SetStatusFilter(value) ==
    /\ TableShown
    /\ value # statusFilter
    /\ statusFilter' = value
    /\ FilterEffect(products, filteredProducts, searchTerm, fulfillmentFilter, value)
    /\ UNCHANGED <<uivars, jvars, itemsPerPage, searchTerm, fulfillmentFilter, logoutPending>>
    /\ RenderAfter

\* onChange of the page-size select: handleItemsPerPageChange(newLimit) in
\* dashboard/page.tsx (setItemsPerPage, setCurrentPage(1)), setItemsPerPage
\* alone in the revision with loadMoreProducts
handleItemsPerPageChange(newLimit) ==
    /\ TableShown
    /\ newLimit \in PageSizeOptions
    /\ newLimit # itemsPerPage
    /\ itemsPerPage' = newLimit
    /\ currentPage' = IF revision = "loadmore" THEN currentPage ELSE 1
    /\ UNCHANGED <<uivars, jvars, filteredProducts, searchTerm, fulfillmentFilter,
                   statusFilter, effectError, logoutPending>>
    /\ RenderAfter

\* the pages the enabled navigation controls lead to. First and previous
\* are disabled on page 1, next and last on page totalPages; in
\* dashboard/page.tsx the controls exist only when totalPages > 1 and
\* include the page numbers and the 'Ir a página' input (1..totalPages)
PageTargets ==
    LET firstPrev == IF currentPage = 1 THEN {} ELSE {1, currentPage - 1}
        nextLast  == IF currentPage = TotalPages THEN {} ELSE {currentPage + 1, TotalPages}
    IN  IF revision = "loadmore" THEN firstPrev \cup nextLast
        ELSE IF TotalPages > 1 THEN firstPrev \cup nextLast \cup (1..TotalPages)
        ELSE {}

\* handlePageChange(newPage) / setCurrentPage(newPage) of a navigation control
handlePageChange(newPage) ==
    /\ TableShown
    /\ newPage \in PageTargets
    /\ newPage \in (0 - MaxPageSteps)..MaxPageSteps
    /\ newPage # currentPage
    /\ currentPage' = newPage
    /\ UNCHANGED <<uivars, jvars, filteredProducts, itemsPerPage, searchTerm,
                   fulfillmentFilter, statusFilter, effectError, logoutPending>>
    /\ RenderAfter

\* the error view is on screen: if (error) after if (loading)
ErrorViewShown ==
    /\ ~loading
    /\ error # NoError
    /\ ~redirected
    /\ ~effectError
    /\ ~renderError

\* the component's state handleLogout leaves alone
lovars == <<catTotal, catSkipped, catNoBody, revision, fpPc, fpI, allProducts, products,
            filteredProducts, loading, loadingMore, error, total,
            lmPc, lmI, currentCount, moreProducts, requestLog, pageFaults,
            currentPage, itemsPerPage, searchTerm, fulfillmentFilter, statusFilter,
            effectError, renderError>>

\* largest number of POST /api/logout requests in flight
MaxLogoutRequests == 2

\* the 'Cerrar sesión' button of the table and the 'Volver al inicio' button
\* of the error view. dashboard/page.tsx: both call handleLogout, which
\* sends POST /api/logout and awaits it; nothing disables the buttons
\* meanwhile. The revision with loadMoreProducts: handleLogout
\* writes an expired meli_access_token to document.cookie and calls
\* router.push('/'); the button of the error view calls router.push('/')
\* only. The write removes the cookie unless it is HttpOnly, as the one
\* /api/callback sets is: the browser then ignores the write
handleLogout ==
    /\ TableShown \/ ErrorViewShown
    /\ IF revision = "loadmore"
       THEN /\ IF TableShown
               THEN accessToken' \in {FALSE, accessToken}
               ELSE UNCHANGED accessToken
            /\ redirected' = TRUE
            /\ UNCHANGED logoutPending
       ELSE /\ logoutPending < MaxLogoutRequests
            /\ logoutPending' = logoutPending + 1
            /\ UNCHANGED <<accessToken, redirected>>
    /\ UNCHANGED <<lovars, jvars, refreshToken, authResponse>>

\* a handleLogout of dashboard/page.tsx after its await: /api/logout has
\* answered (the route deletes both cookies) and router.push('/') is
\* called, or the request failed and the rejection ends that call
handleLogoutDone(outcome) ==
    /\ logoutPending > 0
    /\ logoutPending' = logoutPending - 1
    /\ IF outcome = NetworkError
       THEN UNCHANGED <<accessToken, refreshToken, authResponse, redirected>>
       ELSE /\ Logout
            /\ redirected' = TRUE
    /\ UNCHANGED <<lovars, jvars>>

\* the salesBySKU objects /api/sales answers with
SalesMaps ==
    { <<>>,
      ("SKU-A" :> 7),
      ("SKU-A" :> 7) @@ ("SKU-B" :> 0) @@ ("SIN-SKU" :> 4),
      ("SKU-B" :> 3) @@ ("SKU-C" :> 12) }

\* what /api/sales answers: 200 with a salesBySKU object, an error status
\* without one, or the request fails (NetworkError)
SalesAnswers ==
    {[status |-> 200, salesBySKU |-> m] : m \in SalesMaps}
    \cup {[status |-> st, salesBySKU |-> <<>>] : st \in {401, 500, NetworkError}}

FetchSalesResult_merged(answer) ==
    IF IsOk(answer.status) THEN answer.salesBySKU @@ dashSalesBySKU
    ELSE ("SIN-SKU" :> 0)
\* if (response.ok) { setSalesBySKU(data.salesBySKU || {}) }; a failure is
\* only logged
FetchSalesResult(answer) ==
    IF IsOk(answer.status) THEN answer.salesBySKU ELSE dashSalesBySKU

\* fetchSales from the answer of /api/sales to its end, finally included
FetchSalesDone ==
    /\ fsPc = "await"
    /\ dashSalesBySKU' = FetchSalesResult(salesAnswer)
    /\ loadingSales' = FALSE
    /\ fsPc' = "done"
    /\ UNCHANGED <<cvars, tvars, renderError, salesAnswer>>

\* the record /api/products answers with for the hydrated item id:
\* { id, title, price, ..., fulfillment, sku }
RouteRecord(id) == HydrateBatch(<<id>>)[1]

\* the names of the members of Object.prototype, which the object parsed
\* from the answer of /api/sales and the initial {} inherit
ObjectPrototypeKeys ==
    {"constructor", "hasOwnProperty", "isPrototypeOf", "propertyIsEnumerable",
     "toLocaleString", "toString", "valueOf", "__proto__", "__defineGetter__",
     "__defineSetter__", "__lookupGetter__", "__lookupSetter__"}
\* an inherited member: a function (the prototype object for __proto__),
\* truthy, not a number and not greater than 0
InheritedMember == -2

\* salesBySKU[sku] || 0: the object's own entry, else the member of
\* Object.prototype of that name, else undefined || 0
SalesLookup(sku) ==
    IF sku \in DOMAIN dashSalesBySKU THEN dashSalesBySKU[sku]
    ELSE IF sku \in ObjectPrototypeKeys THEN InheritedMember
    ELSE 0

\* getSalesBySKU of dashboard/page.tsx
getSalesBySKU(sku) == IF sku = NoSellerSku THEN 0 ELSE SalesLookup(sku)

\* const sku = product.attributes.find(...)?.value_name || 'N/A' of the
\* revision with loadMoreProducts
RowSku(product) ==
    IF "attributes" \notin DOMAIN product THEN TypeError
    ELSE IF SellerSkuAttribute(product.attributes) = "" THEN NotAvailable
    ELSE SellerSkuAttribute(product.attributes)

\* the SKU cell of a row of the table and of the export
ShownSku(product) ==
    IF revision = "loadmore" THEN RowSku(product) ELSE getSellerSKU(product)

\* sales60d of a row of the table and of the export
Sales60d(product) ==
    IF revision = "loadmore"
    THEN IF RowSku(product) = TypeError THEN RenderFailed
         ELSE SalesLookup(RowSku(product))
    ELSE getSalesBySKU(getSellerSKU(product))

-----------------------------------------------------------------------------
(* SpecFetch: one call of fetchWithRetry, for every retry budget up to     *)
(* MaxRetries, both base delays and every sequence of upstream outcomes.   *)

InitFetch ==
    /\ NoDetailRequests
    /\ NoSession
    /\ fPc = "running"
    /\ fI = 0
    /\ fRetries \in 0..MaxRetries
    /\ fDelayMs \in DelayValues
    /\ fStatuses = <<>>
    /\ fWaits = <<>>
    /\ fResp = NoResponse
    /\ fErr = ""
    /\ UpstreamQuiet
    /\ productsRoute = "route.ts"
    /\ SalesNotStarted
    /\ ProductsNotStarted
    /\ DashNotMounted

NextFetch ==
    \/ \E outcome \in Outcomes :
          FetchAttempt(outcome) /\ UNCHANGED <<upvars, svars, pvars, dvars, avars, gvars>>
    \/ FetchExhausted /\ UNCHANGED <<upvars, svars, pvars, dvars, avars, gvars>>

SpecFetch == InitFetch /\ [][NextFetch]_vars

-----------------------------------------------------------------------------
(* Claims about fetchWithRetry, checked under SpecFetch.                   *)

\* C1: one call issues at most `retries` upstream requests, and a 2xx
\* response is returned at once: it is the last request of the call, it is
\* the value returned, and no delay follows it.
C1_BudgetAndImmediateSuccess ==
    /\ Len(fStatuses) <= fRetries
    /\ \A k \in 1..Len(fStatuses) :
         fStatuses[k] \in 200..299 =>
            /\ k = Len(fStatuses)
            /\ fPc = "returned"
            /\ fResp = fStatuses[k]
            /\ Len(fWaits) = k - 1

\* a call that used its whole budget of 3 and returned the 2xx of the last attempt
C1_Witness ==
    /\ fRetries = 3
    /\ Len(fStatuses) = 3
    /\ fPc = "returned"
    /\ fResp \in 200..299

\* C2: a 429 or 503 on attempt i (from 0) is followed by a wait of exactly
\* delayMs * 2^i; with base delay 1000, a 429 then a 200 returns the 200
\* after a single wait of 1000 ms.
C2_ExponentialBackoff ==
    /\ \A k \in 1..Len(fStatuses) :
         fStatuses[k] \in {429, 503} =>
            /\ Len(fWaits) >= k
            /\ fWaits[k] = fDelayMs * (2 ^ (k - 1))
    /\ (fDelayMs = 1000 /\ fStatuses = <<429, 200>>) =>
            /\ fPc = "returned"
            /\ fResp = 200
            /\ fWaits = <<1000>>

\* rate limit on the first attempt, success on the second, base delay 1000
C2_Witness ==
    /\ fDelayMs = 1000
    /\ fStatuses = <<429, 200>>
    /\ fPc = "returned"

\* C3: a non-2xx status other than 429 and 503 is returned as-is: it ends
\* the call, is the value returned, and no wait or further request follows.
C3_OtherStatusReturnedAsIs ==
    \A k \in 1..Len(fStatuses) :
        (/\ fStatuses[k] # NetworkError
         /\ fStatuses[k] \notin 200..299
         /\ fStatuses[k] \notin {429, 503}) =>
            /\ k = Len(fStatuses)
            /\ fPc = "returned"
            /\ fResp = fStatuses[k]
            /\ Len(fWaits) = k - 1

\* a 500 answered on the second attempt and handed to the caller
C3_Witness ==
    /\ fPc = "returned"
    /\ fResp = 500
    /\ Len(fStatuses) = 2

\* C4: a transport failure on attempt i waits delayMs * 2^i and goes on to
\* the next attempt while attempts remain; on the last attempt of the
\* budget the call raises that error, returns no response and does not wait.
C4_TransportFailure ==
    \A k \in 1..Len(fStatuses) :
        fStatuses[k] = NetworkError =>
            IF k < fRetries
            THEN /\ Len(fWaits) >= k
                 /\ fWaits[k] = fDelayMs * (2 ^ (k - 1))
                 /\ (k = Len(fStatuses) => fPc = "running" /\ fI = k)
            ELSE /\ k = Len(fStatuses)
                 /\ fPc = "thrown"
                 /\ fErr = "transport"
                 /\ fResp = NoResponse
                 /\ Len(fWaits) = k - 1

\* three transport failures in a row with a budget of 3: the error is raised
C4_Witness ==
    /\ fRetries = 3
    /\ fStatuses = <<NetworkError, NetworkError, NetworkError>>
    /\ fPc = "thrown"
    /\ fErr = "transport"
    /\ fWaits = <<fDelayMs, 2 * fDelayMs>>

-----------------------------------------------------------------------------
(* SpecSales: one request to the sales route, against every explored       *)
(* upstream order history and every sequence of upstream outcomes.         *)

InitSales ==
    /\ NoDetailRequests
    /\ NoSession
    /\ FetchIdle
    /\ \E u \in UpstreamCases :
          /\ upTotal = u.total
          /\ upShortAt = u.shortAt
          /\ upShortLen = u.shortLen
          /\ upNullEntries = {}
    /\ salesRoute \in {"route.ts", "part_001"}
    /\ productsRoute = "route.ts"
    /\ sPc = "start"
    /\ accessToken \in BOOLEAN
    /\ SalesLocalsInit
    /\ ProductsNotStarted
    /\ DashNotMounted

NextSales ==
    \/ SalesGet /\ UNCHANGED <<pvars, dvars, avars, gvars>>
    \/ \E outcome \in PipelineOutcomes :
          FetchAttempt(outcome) /\ UNCHANGED <<upvars, svars, pvars, dvars, avars, gvars>>
    \/ FetchExhausted /\ UNCHANGED <<upvars, svars, pvars, dvars, avars, gvars>>
    \/ \E outcome \in PipelineOutcomes :
          FetchDirect(outcome) /\ UNCHANGED <<upvars, svars, pvars, dvars, avars, gvars>>
    \/ SalesUserDone /\ UNCHANGED <<pvars, dvars, avars, gvars>>
    \/ SalesLoopHead /\ UNCHANGED <<pvars, dvars, avars, gvars>>
    \/ SalesPageDone /\ UNCHANGED <<pvars, dvars, avars, gvars>>
    \/ SalesFold /\ UNCHANGED <<pvars, dvars, avars, gvars>>
    \/ SalesBatchHead /\ UNCHANGED <<pvars, dvars, avars>>
    \/ SalesBatchDone /\ UNCHANGED <<pvars, dvars, avars, gvars>>

SpecSales == InitSales /\ [][NextSales]_vars

-----------------------------------------------------------------------------
(* SpecPaging: the sales route up to the end of its pagination loop, for   *)
(* every explored upstream and every sequence of outcomes. The run is      *)
(* never suspended for ever: every await settles (the upstream answers or  *)
(* the request fails) and the handler then goes on.                        *)

NextPaging ==
    \/ SalesGet /\ UNCHANGED <<pvars, dvars, avars, gvars>>
    \/ \E outcome \in PipelineOutcomes :
          FetchAttempt(outcome) /\ UNCHANGED <<upvars, svars, pvars, dvars, avars, gvars>>
    \/ FetchExhausted /\ UNCHANGED <<upvars, svars, pvars, dvars, avars, gvars>>
    \/ \E outcome \in PipelineOutcomes :
          FetchDirect(outcome) /\ UNCHANGED <<upvars, svars, pvars, dvars, avars, gvars>>
    \/ SalesUserDone /\ UNCHANGED <<pvars, dvars, avars, gvars>>
    \/ SalesLoopHead /\ UNCHANGED <<pvars, dvars, avars, gvars>>
    \/ SalesPageDone /\ UNCHANGED <<pvars, dvars, avars, gvars>>

SpecPaging == InitSales /\ [][NextPaging]_vars /\ WF_vars(NextPaging)

-----------------------------------------------------------------------------
(* SpecClean: one collection run in which no request fails: every request *)
(* is answered 200 on its first attempt, every page is full and every item *)
(* is hydrated. The run is a request to the sales route or a mount of the  *)
(* dashboard (either revision).                                            *)

\* declared totals explored without failures
CleanTotals == {0, 1, 50, 100, 120, 1999, 2000, 2001, 2500}
CleanCatalogTotals == {0, 1, 50, 120, 500, 501, 600, 1100}
\* what /api/sales answers to the mount when nothing fails
CleanSalesAnswer == [status |-> 200, salesBySKU |-> ("SKU-A" :> 7)]

InitClean ==
    /\ NoDetailRequests
    /\ NoSession
    /\ FetchIdle
    /\ upShortAt = NoShort
    /\ upShortLen = 0
    /\ upNullEntries = {}
    /\ salesRoute \in {"route.ts", "part_001"}
    /\ productsRoute \in {"route.ts", "part_000"}
    /\ SalesLocalsInit
    /\ catSkipped = {}
    /\ catNoBody = {}
    /\ catStale = 0
    /\ ProductsNotStarted
    /\ DashLocalsInit
    /\ \/ /\ upTotal \in CleanTotals
          /\ sPc = "start"
          /\ accessToken = TRUE
          /\ catTotal = 0
          /\ revision = "all"
          /\ fpPc = "off"
          /\ fsPc = "off"
          /\ salesAnswer = NoAnswer
       \/ /\ upTotal = 0
          /\ sPc = "off"
          /\ accessToken = FALSE
          /\ catTotal \in CleanCatalogTotals
          /\ revision \in {"all", "loadmore"}
          /\ fpPc = "start"
          /\ fsPc = "start"
          /\ salesAnswer = CleanSalesAnswer

NextClean ==
    \/ SalesGet /\ UNCHANGED <<pvars, dvars, avars, gvars>>
    \/ FetchAttempt(200) /\ UNCHANGED <<upvars, svars, pvars, dvars, avars, gvars>>
    \/ FetchDirect(200) /\ UNCHANGED <<upvars, svars, pvars, dvars, avars, gvars>>
    \/ SalesUserDone /\ UNCHANGED <<pvars, dvars, avars, gvars>>
    \/ SalesLoopHead /\ UNCHANGED <<pvars, dvars, avars, gvars>>
    \/ SalesPageDone /\ UNCHANGED <<pvars, dvars, avars, gvars>>
    \/ SalesFold /\ UNCHANGED <<pvars, dvars, avars, gvars>>
    \/ SalesBatchHead /\ UNCHANGED <<pvars, dvars, avars>>
    \/ SalesBatchDone /\ UNCHANGED <<pvars, dvars, avars, gvars>>
    \/ MountEffect /\ UNCHANGED <<fvars, upvars, svars, pvars, avars, gvars>>
    \/ FetchProductsFirst(200) /\ UNCHANGED <<fvars, upvars, svars, pvars, avars, gvars>>
    \/ FetchProductsPage(200) /\ UNCHANGED <<fvars, upvars, svars, pvars, avars, gvars>>
    \/ FetchProductsTimer /\ UNCHANGED <<fvars, upvars, svars, pvars, avars, gvars>>
    \/ FetchSalesDone /\ UNCHANGED <<fvars, upvars, svars, pvars, avars, gvars>>

SpecClean == InitClean /\ [][NextClean]_vars

-----------------------------------------------------------------------------
(* SpecDash: one mount of the dashboard against every explored catalog,    *)
(* with at most MaxPageFaults /api/products requests not answered 200.     *)

InitDash ==
    /\ NoDetailRequests
    /\ NoSession
    /\ FetchIdle
    /\ UpstreamQuiet
    /\ productsRoute \in {"route.ts", "part_000"}
    /\ SalesNotStarted
    /\ \E c \in CatalogCases :
          /\ catTotal = c.total
          /\ catSkipped = c.skipped
          /\ catStale = c.stale
    /\ catNoBody = {}
    /\ ProductsNotStarted
    /\ revision \in {"all", "loadmore"}
    /\ fpPc = "start"
    /\ fsPc = "start"
    /\ salesAnswer \in SalesAnswers
    /\ DashLocalsInit

NextDash ==
    \/ MountEffect /\ UNCHANGED <<fvars, upvars, svars, pvars, avars, gvars>>
    \/ \E resp \in ApiResponses :
          FetchProductsFirst(resp) /\ UNCHANGED <<fvars, upvars, svars, pvars, avars, gvars>>
    \/ \E resp \in ApiResponses :
          FetchProductsPage(resp) /\ UNCHANGED <<fvars, upvars, svars, pvars, avars, gvars>>
    \/ FetchProductsTimer /\ UNCHANGED <<fvars, upvars, svars, pvars, avars, gvars>>
    \/ LoadMoreStart /\ UNCHANGED <<fvars, upvars, svars, pvars, avars, gvars>>
    \/ LoadMoreTimer /\ UNCHANGED <<fvars, upvars, svars, pvars, avars, gvars>>
    \/ \E resp \in ApiResponses :
          LoadMorePage(resp) /\ UNCHANGED <<fvars, upvars, svars, pvars, avars, gvars>>
    \/ FetchSalesDone /\ UNCHANGED <<fvars, upvars, svars, pvars, avars, gvars>>

SpecDash == InitDash /\ [][NextDash]_vars

-----------------------------------------------------------------------------
(* SpecProducts: one request to /api/products against every explored page  *)
(* of every explored catalog.                                              *)

\* the catalogs explored by the route: 20, 45 or 120 items, none, three or
\* four of which do not hydrate, and catalogs whose last five counted items
\* are gone
ProductCases ==
    [total : {0, 20, 45, 120}, skipped : {{}, {3, 7, 15}}, nobody : {{}},
     stale : {0}]
    \cup [total : {45}, skipped : {{3, 7, 15}}, nobody : {{22}}, stale : {0}]
    \cup [total : {45, 120}, skipped : {{}, {3, 7, 15}}, nobody : {{}},
          stale : {5}]
\* the offsets requested
ProductOffsets == {0, 50, 100}
\* the limit query parameters the route is called with ('50' when absent)
QueryLimits == {20, 50, 100}

InitProducts ==
    /\ NoDetailRequests
    /\ NoSession
    /\ FetchIdle
    /\ UpstreamQuiet
    /\ productsRoute \in {"route.ts", "part_000"}
    /\ sPc = "off"
    /\ accessToken \in BOOLEAN
    /\ SalesLocalsInit
    /\ \E c \in ProductCases :
          /\ catTotal = c.total
          /\ catSkipped = c.skipped
          /\ catNoBody = c.nobody
          /\ catStale = c.stale
    /\ revision = "all"
    /\ fpPc = "off"
    /\ fsPc = "off"
    /\ salesAnswer = NoAnswer
    /\ DashLocalsInit
    /\ pPc = "start"
    /\ pOffset \in ProductOffsets
    /\ pLimit \in QueryLimits
    /\ ProductsLocalsInit

NextProducts ==
    \/ ProductsGet /\ UNCHANGED <<upvars, svars, dvars, avars, gvars>>
    \/ \E outcome \in PipelineOutcomes :
          FetchAttempt(outcome) /\ UNCHANGED <<upvars, svars, pvars, dvars, avars, gvars>>
    \/ FetchExhausted /\ UNCHANGED <<upvars, svars, pvars, dvars, avars, gvars>>
    \/ ProductsUserDone /\ UNCHANGED <<upvars, svars, dvars, avars, gvars>>
    \/ ProductsSearchDone /\ UNCHANGED <<upvars, svars, dvars, avars, gvars>>
    \/ ProductsBatchHead /\ UNCHANGED <<upvars, svars, dvars, avars>>
    \/ ProductsBatchDone /\ UNCHANGED <<upvars, svars, dvars, avars, gvars>>

SpecProducts == InitProducts /\ [][NextProducts]_vars

-----------------------------------------------------------------------------
(* SpecSession: a browser session against the auth routes and the catalog  *)
(* route: logins, logouts and requests of /api/products in any order, for  *)
(* every answer of the upstream.                                           *)

InitSession ==
    /\ NoDetailRequests
    /\ FetchIdle
    /\ UpstreamQuiet
    /\ productsRoute \in {"route.ts", "part_000"}
    /\ sPc = "off"
    /\ accessToken = FALSE
    /\ SalesLocalsInit
    /\ NoSession
    /\ catTotal = 45
    /\ catSkipped = {3, 7, 15}
    /\ catNoBody = {}
    /\ catStale = 0
    /\ revision = "all"
    /\ fpPc = "off"
    /\ fsPc = "off"
    /\ salesAnswer = NoAnswer
    /\ DashLocalsInit
    /\ pPc = "start"
    /\ pOffset = 0
    /\ pLimit \in QueryLimits
    /\ ProductsLocalsInit

NextSession ==
    \/ \E errorParam \in ErrorParams, hasCode \in BOOLEAN, exchange \in ExchangeOutcomes :
          OAuthCallback(errorParam, hasCode, exchange)
          /\ UNCHANGED <<fvars, upvars, slvars, pvars, dvars, gvars>>
    \/ Logout /\ UNCHANGED <<fvars, upvars, slvars, pvars, dvars, gvars>>
    \/ ProductsRequest /\ UNCHANGED <<fvars, upvars, svars, dvars, avars>>
    \/ ProductsGet /\ UNCHANGED <<upvars, svars, dvars, avars, gvars>>
    \/ \E outcome \in PipelineOutcomes :
          FetchAttempt(outcome) /\ UNCHANGED <<upvars, svars, pvars, dvars, avars, gvars>>
    \/ FetchExhausted /\ UNCHANGED <<upvars, svars, pvars, dvars, avars, gvars>>
    \/ ProductsUserDone /\ UNCHANGED <<upvars, svars, dvars, avars, gvars>>
    \/ ProductsSearchDone /\ UNCHANGED <<upvars, svars, dvars, avars, gvars>>
    \/ ProductsBatchHead /\ UNCHANGED <<upvars, svars, dvars, avars>>
    \/ ProductsBatchDone /\ UNCHANGED <<upvars, svars, dvars, avars, gvars>>

SpecSession == InitSession /\ [][NextSession]_vars

-----------------------------------------------------------------------------
(* SpecOrders: the reconciliation (steps 4 and 5 of the sales route) over  *)
(* one collection of 120 orders that the upstream delivered in different   *)
(* orders, every SKU batch being answered 200.                             *)

\* the number of orders of the collection
OrderCount == 120
\* the arrangements explored: order k of the list is (k * stride + shift) mod 120
Strides == {1, 7, 11, 13, 119}
Shifts == 0..11

\* the collection, as the upstream delivers it under one arrangement
Arrangement(stride, shift) ==
    [k \in 1..OrderCount |-> ((k - 1) * stride + shift) % OrderCount]

InitOrders ==
    /\ NoDetailRequests
    /\ NoSession
    /\ FetchIdle
    /\ upTotal = OrderCount
    /\ upShortAt = NoShort
    /\ upShortLen = 0
    /\ upNullEntries = {}
    /\ salesRoute \in {"route.ts", "part_001"}
    /\ productsRoute = "route.ts"
    /\ ProductsNotStarted
    /\ DashNotMounted
    /\ sPc = "fold"
    /\ accessToken = TRUE
    /\ userStatus = 200
    /\ \E stride \in Strides : \E shift \in Shifts :
          /\ allOrders = Arrangement(stride, shift)
          /\ results = SubSeq(Arrangement(stride, shift), 101, OrderCount)
    /\ offset = 150
    /\ hasMore = FALSE
    /\ totalFound = OrderCount
    /\ failedAttempts = 0
    /\ authRejected = FALSE
    /\ requestedOffsets = {0, 50, 100}
    /\ pageRepeated = FALSE
    /\ itemSales = <<>>
    /\ totalUnits = 0
    /\ itemIds = <<>>
    /\ salesBySKU = <<>>
    /\ processedItems = 0
    /\ batchI = 0
    /\ skuBatchesFailed = {}
    /\ skuEntriesRead = {}
    /\ sResponse = [status |-> 0]

NextOrders ==
    \/ SalesFold /\ UNCHANGED <<pvars, dvars, avars, gvars>>
    \/ SalesBatchHead /\ UNCHANGED <<pvars, dvars, avars>>
    \/ FetchAttempt(200) /\ UNCHANGED <<upvars, svars, pvars, dvars, avars, gvars>>
    \/ FetchDirect(200) /\ UNCHANGED <<upvars, svars, pvars, dvars, avars, gvars>>
    \/ SalesBatchDone /\ UNCHANGED <<pvars, dvars, avars, gvars>>

SpecOrders == InitOrders /\ [][NextOrders]_vars

-----------------------------------------------------------------------------
(* SpecEntries: the reconciliation over the same collection of 120 orders, *)
(* for every outcome of the batch requests and multi-get answers in which  *)
(* the entry of some items is null.                                        *)

\* the sets of items with a null entry explored
NullEntryCases == {{}, {1}, {4}, {13}, {4, 23}, {20, 21}}

InitEntries ==
    /\ NoDetailRequests
    /\ NoSession
    /\ FetchIdle
    /\ upTotal = OrderCount
    /\ upShortAt = NoShort
    /\ upShortLen = 0
    /\ upNullEntries \in NullEntryCases
    /\ salesRoute \in {"route.ts", "part_001"}
    /\ productsRoute = "route.ts"
    /\ ProductsNotStarted
    /\ DashNotMounted
    /\ sPc = "fold"
    /\ accessToken = TRUE
    /\ userStatus = 200
    /\ allOrders = Arrangement(1, 0)
    /\ results = SubSeq(Arrangement(1, 0), 101, OrderCount)
    /\ offset = 150
    /\ hasMore = FALSE
    /\ totalFound = OrderCount
    /\ failedAttempts = 0
    /\ authRejected = FALSE
    /\ requestedOffsets = {0, 50, 100}
    /\ pageRepeated = FALSE
    /\ itemSales = <<>>
    /\ totalUnits = 0
    /\ itemIds = <<>>
    /\ salesBySKU = <<>>
    /\ processedItems = 0
    /\ batchI = 0
    /\ skuBatchesFailed = {}
    /\ skuEntriesRead = {}
    /\ sResponse = [status |-> 0]

NextEntries ==
    \/ SalesFold /\ UNCHANGED <<pvars, dvars, avars, gvars>>
    \/ SalesBatchHead /\ UNCHANGED <<pvars, dvars, avars>>
    \/ \E outcome \in PipelineOutcomes :
          FetchAttempt(outcome) /\ UNCHANGED <<upvars, svars, pvars, dvars, avars, gvars>>
    \/ FetchExhausted /\ UNCHANGED <<upvars, svars, pvars, dvars, avars, gvars>>
    \/ \E outcome \in PipelineOutcomes :
          FetchDirect(outcome) /\ UNCHANGED <<upvars, svars, pvars, dvars, avars, gvars>>
    \/ SalesBatchDone /\ UNCHANGED <<pvars, dvars, avars, gvars>>

SpecEntries == InitEntries /\ [][NextEntries]_vars

-----------------------------------------------------------------------------
(* Claims about the collection runs.                                       *)

\* C5: once an orders page has been answered 401 the run aborts: no further
\* upstream request (the same page, a later page, a SKU batch) is issued.
C5_AbortOnAuthRejection == authRejected => fPc # "running"

\* C6: when the first upstream call (users/me) is answered 401, the route
\* ends with an outcome that differs from the one every other failure gets,
\* with nothing accumulated.
C6_AuthFailedDistinguishable ==
    (sPc = "done" /\ userStatus = 401) =>
        /\ sResponse # SalesError500
        /\ allOrders = <<>>

\* C7: without failures a collector asked to collect N items (N >= 1, and N
\* within the safety ceiling of the sales route and within the initial load of
\* the dashboard) requests exactly the ceil(N/P) pages at offsets 0, P, 2P, ...
\* once each, and ends with N accumulated items.
C7_CeilPagesExactTotal ==
    /\ (sPc = "fold" /\ upTotal \in 1..2000) =>
          /\ ~pageRepeated
          /\ requestedOffsets = {50 * k : k \in 0..(CeilDiv(upTotal, 50) - 1)}
          /\ Len(allOrders) = upTotal
    /\ (fpPc = "done" /\ catTotal \in 1..500) =>
          /\ requestLog = [k \in 1..CeilDiv(catTotal, 50) |-> 50 * (k - 1)]
          /\ Len(products) = catTotal

\* C8: after the initial load and any number of load-more operations the
\* product list holds no id twice and keeps the upstream order (ids ascend).
C8_NoDuplicatesFirstSeenOrder ==
    \A k \in 1..(Len(products) - 1) : products[k] < products[k + 1]

\* C9: pagination that was stopped neither by the safety ceiling nor by the
\* failure threshold (nor by an empty page) has accumulated at least the
\* reported total.
C9_StopsOnlyWhenTotalAccumulated ==
    (sPc = "fold" /\ failedAttempts < 3 /\ offset < 2000 /\ Len(results) > 0) =>
        Len(allOrders) >= totalFound

\* C10: no orders page is requested at an offset >= 2000, at most 40 pages
\* succeed, and the accumulated list never holds more than 2000 orders.
C10_SafetyCeiling ==
    /\ \A o \in requestedOffsets : o < 2000
    /\ offset <= 2000
    /\ offset = 50 * Cardinality({o \in requestedOffsets : o < offset})
    /\ Cardinality({o \in requestedOffsets : o < offset}) <= 40
    /\ Len(allOrders) <= 2000

\* the ceiling is hit: 40 pages, 2000 orders, a declared total of 2500
C10_Witness ==
    /\ sPc = "fold"
    /\ totalFound = 2500
    /\ offset = 2000
    /\ Len(allOrders) = 2000
    /\ Cardinality(requestedOffsets) = 40

RECURSIVE PagesUpTo(_)
\* the orders of the successful pages below offset off, in upstream order
PagesUpTo(off) ==
    IF off <= 0 THEN <<>> ELSE PagesUpTo(off - 50) \o OrdersPage(off - 50)

\* C11: in the revision of the sales route that counts failures, the third
\* consecutive failure of an orders page (non-2xx answer or
\* raised error) ends paging, and the run carries on with every order of the
\* successful pages; a failed page adds one to the count and leaves the
\* accumulated orders alone, a successful page sets the count to 0.
C11_FailureThreshold ==
    /\ [](/\ failedAttempts \in 0..3
          /\ (failedAttempts = 3 => sPc \in {"fold", "batches", "batch", "done"})
          /\ (sPc \in {"loop", "page"} => failedAttempts < 3)
          /\ (sPc \in {"fold", "batches", "batch"} => allOrders = PagesUpTo(offset))
          /\ (sPc = "done" /\ sResponse.status = 200 =>
                 sResponse.totalOrders = Len(PagesUpTo(offset))))
    /\ [][salesRoute = "part_001" /\ sPc = "page" /\ sPc' # "page" =>
            IF fPc = "thrown" \/ fResp \notin 200..299
            THEN /\ failedAttempts' = failedAttempts + 1
                 /\ allOrders' = allOrders
                 /\ offset' = offset
                 /\ (failedAttempts' = 3 <=> sPc' = "fold")
            ELSE failedAttempts' = 0]_vars

\* one successful page, then three failures in a row: the route answers with
\* the 50 orders of the first page
C11_Witness ==
    /\ sPc = "done"
    /\ failedAttempts = 3
    /\ upTotal = 120
    /\ sResponse.status = 200
    /\ sResponse.totalOrders = 50

\* the answer of the route when the collected orders are orders and every SKU
\* batch is answered 200: steps 4 and 5 of the handler and the response
RespondFor(orders) ==
    LET sales == FoldOrders([obj |-> <<>>, units |-> 0], orders, 1, Len(orders))
        ids   == [p \in 1..Len(sales.obj) |-> sales.obj[p].id]
        RECURSIVE Resolve(_, _)
        Resolve(acc, n) ==
            IF n = 0 THEN acc
            ELSE LET prev == Resolve(acc, n - 1)
                     id   == ids[n]
                     sku  == SalesSku(id)
                 IN  IF ItemCode(id) = 200 /\ ItemHasBody(id)
                     THEN [bySku |-> [k \in DOMAIN prev.bySku \cup {sku} |->
                                        IF k = sku
                                        THEN (IF k \in DOMAIN prev.bySku
                                              THEN prev.bySku[k] ELSE 0)
                                             + Units(sales.obj, id)
                                        ELSE prev.bySku[k]],
                           processed |-> prev.processed + 1]
                     ELSE prev
        r == Resolve([bySku |-> <<>>, processed |-> 0], Len(ids))
    IN  SalesOk(r.bySku, Len(orders), sales.units, r.processed)

\* C12: a run that the safety ceiling or the failure threshold ended with
\* fewer orders than the declared total answers with a result that differs
\* from the result of a complete run over the orders it delivers (it is
\* marked partial).
C12_PartialIsMarked ==
    (/\ sPc = "done"
     /\ sResponse.status = 200
     /\ failedAttempts >= 3 \/ offset >= 2000
     /\ Len(allOrders) < totalFound) =>
        sResponse # RespondFor(allOrders)

-----------------------------------------------------------------------------
(* Claims about the catalog route.                                         *)

\* the ids of the first n page ids that the route has hydrated: those whose
\* entry has sub-status 200 and a body, in a batch that was answered 2xx
ExpectedIds(n) ==
    SelectSeq(SubSeq(pItemIds, 1, Min(n, Len(pItemIds))),
              LAMBDA id : /\ id \notin catSkipped
                          /\ id \notin catNoBody
                          /\ ((id - pOffset) \div 20) * 20 \notin pSkippedBatches)

\* the ids of a batch whose entry is not a 200 with a body
Unhydrated(batch) ==
    {k \in 1..Len(batch) : batch[k] \in catSkipped \cup catNoBody}

\* C13: in a detail batch answered 2xx exactly the entries with sub-status 200
\* and a body become products, in order; the other entries are skipped and
\* the loop goes on: n ids with k such entries add n - k products (20 ids
\* with 3 non-200 entries: 17 products).
C13_SubStatusSkipped ==
    /\ [](/\ pPc \in {"batches", "batch"} =>
                [k \in 1..Len(pProducts) |-> pProducts[k].id] = ExpectedIds(pBatchI)
          /\ (pPc = "done" /\ pResponse.status = 200) =>
                /\ pBatchI >= Len(pItemIds)
                /\ [k \in 1..Len(pResponse.products) |-> pResponse.products[k].id]
                      = ExpectedIds(Len(pItemIds))
                /\ (Len(pItemIds) = 20 /\ pSkippedBatches = {}
                        /\ Cardinality(Unhydrated(pItemIds)) = 3 =>
                      Len(pResponse.products) = 17))
    /\ [][(pPc = "batch" /\ pPc' # "batch" /\ fPc = "returned" /\ fResp \in 200..299) =>
            LET batch == SubSeq(pItemIds, pBatchI + 1, Min(pBatchI + 20, Len(pItemIds)))
            IN  /\ Len(pProducts') = Len(pProducts) + Len(batch)
                                        - Cardinality(Unhydrated(batch))
                /\ pPc' = "batches"
                /\ pBatchI' = pBatchI + 20
                /\ pSkippedBatches' = pSkippedBatches]_vars

\* 20 ids, 3 of them with a non-200 entry: the route answers 17 products
C13_Witness ==
    /\ pPc = "done"
    /\ pResponse.status = 200
    /\ Len(pItemIds) = 20
    /\ catSkipped = {3, 7, 15}
    /\ Len(pResponse.products) = 17

\* C14: the 200 answer of the catalog route holds the number of products
\* hydrated and the number of ids the request was to hydrate, the ids of the
\* search page: as its total, as its limit, or as what its paging fields
\* fix, min(limit, total - offset), so that the caller can tell the gap.
C14_IntendedAndHydratedCounts ==
    (pPc = "done" /\ pResponse.status = 200) =>
        /\ Len(pResponse.products) = Len(ExpectedIds(Len(pItemIds)))
        /\ Len(pItemIds) \in
              {pResponse.total, pResponse.limit,
               Min(pResponse.limit, Max(0, pResponse.total - pResponse.offset))}

\* C15: once the detail batches of a page are under way the route answers
\* 200 with the products of the batches that were answered 2xx, whatever
\* happens to the other batches.
C15_BatchFailureNotFatal ==
    (pPc = "done" /\ Len(pItemIds) > 0) =>
        /\ pResponse.status = 200
        /\ [k \in 1..Len(pResponse.products) |-> pResponse.products[k].id]
              = ExpectedIds(Len(pItemIds))

-----------------------------------------------------------------------------
(* Claims about the reconciliation of the sales route.                     *)

\* the units order o sells of item id: the quantities of its lines that name
\* the item and have a quantity above 0
OrderUnits(o, id) ==
    LET lines == OrderItems(o)
        RECURSIVE Sum(_)
        Sum(n) ==
            IF n = 0 THEN 0
            ELSE Sum(n - 1)
                 + (IF /\ lines[n].item = id
                       /\ lines[n].quantity # -1000
                       /\ lines[n].quantity > 0
                    THEN lines[n].quantity ELSE 0)
    IN  Sum(Len(lines))

RECURSIVE SoldUnits(_, _, _, _)
\* the units the orders lo..hi sell of item id
SoldUnits(orders, id, lo, hi) ==
    IF hi < lo THEN 0
    ELSE IF lo = hi THEN OrderUnits(orders[lo], id)
    ELSE LET mid == (lo + hi) \div 2
         IN  SoldUnits(orders, id, lo, mid) + SoldUnits(orders, id, mid + 1, hi)

\* the item ids the upstream orders refer to
ItemUniverse == 1..NumItems

\* C16: the first pass gives every item id the sum of the quantities of the
\* order lines that name it, over all collected orders; lines with a missing,
\* zero or negative quantity and lines without item id add nothing and
\* create no entry (quantities 2 and 5 for one id give 7).
C16_ItemSalesFold ==
    /\ [][(sPc = "fold" /\ sPc' = "batches") =>
            /\ \A id \in ItemUniverse :
                  Units(itemSales', id) = SoldUnits(allOrders, id, 1, Len(allOrders))
            /\ \A p \in 1..Len(itemSales') :
                  /\ itemSales'[p].id \in ItemUniverse
                  /\ itemSales'[p].units > 0
                  /\ \A q \in 1..Len(itemSales') : itemSales'[q].id = itemSales'[p].id => q = p
            /\ \A id \in ItemUniverse :
                  SoldUnits(allOrders, id, 1, Len(allOrders)) > 0 => HasKey(itemSales', id)
            /\ itemIds' = [p \in 1..Len(itemSales') |-> itemSales'[p].id]]_vars
    /\ [](FoldLines([obj |-> <<>>, units |-> 0],
                    <<[item |-> 1, quantity |-> 2], [item |-> 1, quantity |-> 5]>>, 2).obj
            = <<[id |-> 1, units |-> 7]>>)
    /\ [][(sPc \in {"batches", "batch"}) => (itemSales' = itemSales)]_vars

\* 120 collected orders: item 3 is named by the orders 2, 27, 52, 77 and 102
C16_Witness ==
    /\ sPc = "batches"
    /\ Len(allOrders) = 120
    /\ batchI = 0
    /\ Units(itemSales, 3) = SoldUnits(allOrders, 3, 1, 120)
    /\ Units(itemSales, 3) > 5

\* the SKUs an aggregate can hold
SkuUniverse == {"SKU-A", "SKU-B", "SKU-C", "SIN-SKU"}

\* salesBySKU[sku] || 0
SkuUnits(bySku, sku) == IF sku \in DOMAIN bySku THEN bySku[sku] ELSE 0

\* the multi-get entry of item id has sub-status 200 and a body
Resolves(id) == id % 7 # 0 /\ id % 11 # 0

RECURSIVE ResolvedUnits(_, _, _)
\* the units of the resolved ids of SKU sku among the first n ids of ids
ResolvedUnits(ids, sku, n) ==
    IF n = 0 THEN 0
    ELSE ResolvedUnits(ids, sku, n - 1)
         + (IF Resolves(ids[n]) /\ SalesSku(ids[n]) = sku
            THEN Units(itemSales, ids[n]) ELSE 0)

\* the number of resolved ids in ids
ResolvedCount(ids) == Cardinality({p \in 1..Len(ids) : Resolves(ids[p])})

\* C17: a SKU batch answered 2xx adds to every SKU the units of the resolved
\* ids of the batch that carry that SKU, a failed batch adds nothing, and when
\* every batch was answered the aggregate of a SKU is the sum of the units of
\* all resolved ids with that SKU, whichever batches they fell into.
C17_SkuAggregate ==
    /\ [][(sPc = "batch" /\ sPc' = "batches") =>
            LET batch == SubSeq(itemIds, batchI + 1, Min(batchI + 20, Len(itemIds)))
            IN  IF fPc = "returned" /\ fResp \in 200..299
                THEN \A sku \in SkuUniverse :
                        SkuUnits(salesBySKU', sku) =
                            SkuUnits(salesBySKU, sku) + ResolvedUnits(batch, sku, Len(batch))
                ELSE salesBySKU' = salesBySKU]_vars
    /\ []((sPc = "done" /\ sResponse.status = 200
             /\ processedItems = ResolvedCount(itemIds)) =>
            /\ DOMAIN sResponse.salesBySKU \subseteq SkuUniverse
            /\ \A sku \in SkuUniverse :
                  SkuUnits(sResponse.salesBySKU, sku)
                      = ResolvedUnits(itemIds, sku, Len(itemIds)))

\* two resolved ids with one SKU, one in the first batch of 20 and one in the
\* second, are both in the aggregate of the answer
C17_Witness ==
    /\ sPc = "done"
    /\ sResponse.status = 200
    /\ processedItems = ResolvedCount(itemIds)
    /\ \E p \in 1..20 : \E q \in 21..Len(itemIds) :
          /\ Resolves(itemIds[p]) /\ Resolves(itemIds[q])
          /\ SalesSku(itemIds[p]) = SalesSku(itemIds[q])
          /\ sResponse.salesBySKU[SalesSku(itemIds[p])]
                >= Units(itemSales, itemIds[p]) + Units(itemSales, itemIds[q])

\* the sum of the values of a SKU aggregate
AggregateTotal(bySku) ==
    LET RECURSIVE Sum(_)
        Sum(S) == IF S = {} THEN 0
                  ELSE LET sku == CHOOSE x \in S : TRUE
                       IN  bySku[sku] + Sum(S \ {sku})
    IN  Sum(DOMAIN bySku)

\* the positions of itemIds whose id was resolved so far: sub-status 200 and a
\* body, in an entry of a 2xx answer that the loop over the entries reached
ResolvedPositions ==
    {p \in skuEntriesRead : p <= Len(itemIds) /\ Resolves(itemIds[p])}

RECURSIVE LineUnits(_)
\* the quantities of the order lines that name the ids at the positions P
LineUnits(P) ==
    IF P = {} THEN 0
    ELSE LET p == CHOOSE x \in P : TRUE
         IN  SoldUnits(allOrders, itemIds[p], 1, Len(allOrders)) + LineUnits(P \ {p})

\* C18: between the SKU batches and in the answer, the values of the SKU
\* aggregate add up to the quantities of the order lines whose item id was
\* resolved, every value is a natural number, and the number of resolved ids
\* is the count the answer reports (totalItemsWithSales, which the answer of
\* the revision with fetchWithRetry holds).
C18_AggregateEqualsResolvedLines ==
    /\ sPc = "batches" =>
          /\ AggregateTotal(salesBySKU) = LineUnits(ResolvedPositions)
          /\ \A sku \in DOMAIN salesBySKU : salesBySKU[sku] \in Nat
          /\ processedItems = Cardinality(ResolvedPositions)
    /\ (sPc = "done" /\ sResponse.status = 200) =>
          /\ AggregateTotal(sResponse.salesBySKU) = LineUnits(ResolvedPositions)
          /\ \A sku \in DOMAIN sResponse.salesBySKU : sResponse.salesBySKU[sku] \in Nat
          /\ (salesRoute = "part_001" =>
                 sResponse.totalItemsWithSales = Cardinality(ResolvedPositions))
          /\ AggregateTotal(sResponse.salesBySKU) <= sResponse.totalUnitsAllSKUs

\* an answer whose aggregate leaves out the units of unresolved ids
C18_Witness ==
    /\ sPc = "done"
    /\ sResponse.status = 200
    /\ skuBatchesFailed = {}
    /\ Len(itemIds) > 20
    /\ AggregateTotal(sResponse.salesBySKU) > 0
    /\ AggregateTotal(sResponse.salesBySKU) < sResponse.totalUnitsAllSKUs

\* the collection in the order 0, 1, 2, ...
CanonicalOrders == [k \in 1..120 |-> k - 1]

\* Object.keys(itemSales) for the collection in that order
CanonicalIds ==
    LET r == FoldOrders([obj |-> <<>>, units |-> 0], CanonicalOrders, 1, 120)
    IN  [p \in 1..Len(r.obj) |-> r.obj[p].id]

\* C19: whatever the order in which the 120 orders were collected, and so
\* whatever the order of the keys of itemSales and the grouping of the ids
\* into batches of 20, the answer holds the same SKU aggregate, the same
\* number of units and the same number of resolved ids.
C19_OrderIndependent ==
    sPc = "done" =>
        /\ sResponse.salesBySKU = RespondFor(CanonicalOrders).salesBySKU
        /\ sResponse.totalUnitsAllSKUs = RespondFor(CanonicalOrders).totalUnitsAllSKUs
        /\ processedItems = Cardinality(ResolvedPositions)
        /\ sResponse = RespondFor(CanonicalOrders)

\* an answer computed from keys in another order, grouped into other batches
C19_Witness ==
    /\ sPc = "done"
    /\ sResponse.status = 200
    /\ allOrders # CanonicalOrders
    /\ Len(itemIds) > 20
    /\ Len(CanonicalIds) = Len(itemIds)
    /\ {itemIds[p] : p \in 1..20} # {CanonicalIds[p] : p \in 1..20}

\* the number of ids of itemIds that were left out of the aggregate
ExcludedCount == Len(itemIds) - Cardinality(ResolvedPositions)

\* C20: the answer of a reconciliation that left ids out holds an aggregate
\* without them, was computed from all the other ids, and reports the number
\* of ids left out in one of its counts.
C20_ExcludedIdsCounted ==
    (sPc = "done" /\ sResponse.status = 200 /\ ExcludedCount > 0) =>
        /\ AggregateTotal(sResponse.salesBySKU) = LineUnits(ResolvedPositions)
        /\ (salesRoute = "part_001" =>
               sResponse.totalItemsWithSales = Cardinality(ResolvedPositions))
        /\ \E count \in DOMAIN sResponse \ {"status", "salesBySKU"} :
              sResponse[count] = ExcludedCount

-----------------------------------------------------------------------------
\* C21: an item without a SELLER_SKU attribute carries one and the same
\* defined sentinel SKU in every pass: the sku of its record in the answer of
\* the catalog route is not null, it is the key the sales route aggregates
\* the item under, and it is the SKU the dashboard shows for the record.
C21_OneSentinel ==
    pResponse.status = 200 =>
        \A k \in 1..Len(pResponse.products) :
            LET product == pResponse.products[k]
            IN  ItemSkuValue(product.id) = NoSku =>
                    /\ product.sku # "null"
                    /\ product.sku = SalesSku(product.id)
                    /\ ShownSku(product) = product.sku

-----------------------------------------------------------------------------
\* C22: once the catalog and the sales aggregate are loaded, the 60-day sales
\* figure of every row is the aggregate's entry for the sku of the row's
\* record as the catalog route returned it, and 0 when that sku is null or
\* has no entry.
C22_SalesFigureBySellerSku ==
    (fpPc = "done" /\ fsPc = "done") =>
        \A k \in 1..Len(products) :
            LET row == RouteRecord(products[k])
            IN  Sales60d(row) =
                    IF row.sku = "null" THEN 0
                    ELSE IF row.sku \in DOMAIN dashSalesBySKU
                    THEN dashSalesBySKU[row.sku]
                    ELSE 0

-----------------------------------------------------------------------------
\* the list fetchProducts delivers when every request is answered 200: the
\* pages at the offsets i * 50, i from the given one up to the bound of the loop
RECURSIVE PagesFrom(_, _)
PagesFrom(i, n) ==
    IF i >= n THEN <<>> ELSE CatalogPage(i * 50) \o PagesFrom(i + 1, n)


-----------------------------------------------------------------------------
\* C24: a run of the sales route whose page requests all failed, the first
\* one included (the offset never left 0), ends with an answer that differs
\* from the answer of a successful run that found no orders.
C24_FailedBeforeAnyData ==
    (/\ sPc = "done"
     /\ userStatus = 200
     /\ offset = 0
     /\ failedAttempts >= 1) =>
        sResponse # RespondFor(<<>>)

-----------------------------------------------------------------------------
\* C25: when the upstream rejects the credential with a 401 and the catalog
\* route answers 401 for it, the stored credential is gone: the cookie
\* meli_access_token is no longer set once the route has answered.
C25_RejectedCredentialInvalidated ==
    [][(pPc = "user" /\ pPc' = "done" /\ pResponse'.status = 401)
          => ~accessToken']_vars

-----------------------------------------------------------------------------
\* C27: the listing request the catalog route sends upstream carries a limit
\* of at most 50, whatever limit the route was called with.
C27_ListingLimitAtMost50 ==
    pPc = "search" => SearchLimit <= 50

-----------------------------------------------------------------------------
\* the ids of the batches requested so far, in the order they were requested
RECURSIVE Flatten(_, _)
Flatten(log, n) == IF n = 0 THEN <<>> ELSE Flatten(log, n - 1) \o log[n]

\* C26: the batches the detail pass of the catalog route has requested hold
\* between 1 and 20 ids each, exactly 20 in every batch but the last one
\* requested; put one after the other in the order they were requested they
\* are the collected ids from the first one on, in collected order, without
\* gap or repetition; and when the route answers 200 they are all the
\* collected ids, so that every id was requested in exactly one batch; the
\* next batch starts at the id after the last one requested.
C26_ConsecutiveBatchesOfTwenty ==
    LET requested == Flatten(detailLog, Len(detailLog))
    IN  /\ \A b \in 1..Len(detailLog) :
              /\ Len(detailLog[b]) \in 1..20
              /\ b < Len(detailLog) => Len(detailLog[b]) = 20
        /\ Len(requested) <= Len(pItemIds)
        /\ requested = SubSeq(pItemIds, 1, Len(requested))
        /\ \A j, k \in 1..Len(requested) : requested[j] = requested[k] => j = k
        /\ (pPc = "done" /\ pResponse.status = 200) => requested = pItemIds
        /\ pPc = "batches" =>
              Len(requested) = IF pBatchI < Len(pItemIds) THEN pBatchI ELSE Len(pItemIds)

\* the route has answered 200 after requesting 50 ids in three batches, the
\* last one of 10 ids
C26_Witness ==
    /\ pPc = "done"
    /\ pResponse.status = 200
    /\ Len(pItemIds) = 50
    /\ Len(detailLog) = 3
    /\ Len(detailLog[3]) = 10

-----------------------------------------------------------------------------
\* C28: in a run of the sales route a request (a call of fetchWithRetry, or
\* of fetch in src/app/api/sales/route.ts) is in progress
\* only while the route waits for the user lookup, a page or a batch; the
\* route enters such a wait, issuing the request, only when no call is in
\* progress or left unread, and it leaves the wait only once the call has
\* returned or thrown: the requests go out strictly one after another.
C28_OneRequestAtATime ==
    /\ [](fPc # "idle" => sPc \in {"user", "page", "batch"})
    /\ [][(sPc' # sPc /\ sPc' \in {"user", "page", "batch"})
             => (fPc = "idle" /\ fPc' \in {"running", "direct"}
                 /\ fStatuses' = <<>>)]_vars
    /\ [][(sPc \in {"user", "page", "batch"} /\ sPc' # sPc)
             => (fPc \in {"returned", "thrown"} /\ fPc' = "idle")]_vars

\* a batch request is being retried after the pages were loaded
C28_Witness ==
    /\ sPc = "batch"
    /\ fPc = "running"
    /\ Len(fStatuses) >= 1
    /\ Len(allOrders) >= 100
    /\ batchI >= 20

-----------------------------------------------------------------------------
\* C29: accumulation is all-or-nothing: a page that failed leaves the order
\* list as it was, and a batch that failed (its else branch or its catch
\* ran) leaves the SKU aggregate and the count of processed items as they
\* were before the batch.
C29_AllOrNothing ==
    /\ [][(sPc = "page" /\ sPc' # sPc /\ failedAttempts' = failedAttempts + 1)
             => (allOrders' = allOrders)]_vars
    /\ [][(sPc = "batch" /\ sPc' # sPc /\ batchI \in skuBatchesFailed')
             => (salesBySKU' = salesBySKU /\ processedItems' = processedItems)]_vars

-----------------------------------------------------------------------------
\* C30: the pagination loop of the sales route ends whatever the upstream
\* answers. The pages that succeeded so far are offset / 50, at most 40, and
\* the failures in a row at most 3; every page request that completes either
\* succeeds (the offset advances by 50 and the failures in a row go back to
\* 0), or fails and counts (one more failure in a row), or fails and ends
\* the loop at once (src/app/api/sales/route.ts), so that 3 * (offset / 50)
\* + the failures in a row grows with every page request that does not end
\* the loop and never exceeds 120: at most 120 page requests; and every run
\* leaves the loop.
C30_PaginationTerminates ==
    /\ [](/\ offset \in 0..2000
          /\ offset % 50 = 0
          /\ failedAttempts \in 0..3
          /\ 3 * (offset \div 50) + failedAttempts <= 120
          /\ (sPc = "page" => (offset < 2000 /\ failedAttempts < 3)))
    /\ [][(sPc = "page" /\ sPc' # sPc) =>
             \/ /\ \/ (offset' = offset + 50 /\ failedAttempts' = 0)
                   \/ (offset' = offset /\ failedAttempts' = failedAttempts + 1)
                /\ 3 * (offset' \div 50) + failedAttempts' >
                      3 * (offset \div 50) + failedAttempts
             \/ /\ salesRoute = "route.ts"
                /\ offset' = offset
                /\ failedAttempts' = failedAttempts
                /\ sPc' \in {"fold", "done"}]_vars
    /\ <>(sPc \in {"fold", "done"})

\* the loop has ended at the ceiling, after 40 successful pages, in a run in
\* which a failed page was requested again
C30_Witness ==
    /\ sPc = "fold"
    /\ offset = 2000
    /\ Len(fStatuses) = 0
    /\ pageRepeated
    /\ Cardinality(requestedOffsets) = 40

-----------------------------------------------------------------------------
\* the sum of the first n waits
RECURSIVE TotalWait(_, _)
TotalWait(waits, n) == IF n = 0 THEN 0 ELSE TotalWait(waits, n - 1) + waits[n]

\* C31: when each of the `retries` attempts of a call received 429 or 503,
\* the call has waited delayMs * 2^i after every attempt i, the last one
\* included, delayMs * (2^retries - 1) in all; it returns no response, and
\* its next step raises the 'max retries' error.
C31_RetriesExhausted ==
    /\ []((/\ Len(fStatuses) = fRetries
           /\ \A k \in 1..Len(fStatuses) : fStatuses[k] \in {429, 503}) =>
             /\ fPc \in {"running", "thrown"}
             /\ fResp = -1
             /\ Len(fWaits) = fRetries
             /\ \A k \in 1..fRetries : fWaits[k] = fDelayMs * (2 ^ (k - 1))
             /\ TotalWait(fWaits, Len(fWaits)) = fDelayMs * ((2 ^ fRetries) - 1)
             /\ (fPc = "thrown" => fErr = "maxretries"))
    /\ [][(/\ fPc = "running"
           /\ Len(fStatuses) = fRetries
           /\ \A k \in 1..Len(fStatuses) : fStatuses[k] \in {429, 503})
             => (fPc' = "thrown" /\ fErr' = "maxretries" /\ fWaits' = fWaits)]_vars

\* three attempts, all rate limited, base delay 1000: waits of 1000, 2000 and
\* 4000 ms, then the error
C31_Witness ==
    /\ fRetries = 3
    /\ fDelayMs = 1000
    /\ fStatuses = <<429, 503, 429>>
    /\ fWaits = <<1000, 2000, 4000>>
    /\ fPc = "thrown"
    /\ fErr = "maxretries"

-----------------------------------------------------------------------------
\* C32: a successful orders page with zero results ends the pagination of
\* the sales route at once, also when the next offset is below the declared
\* total: hasMore becomes false with that page, and from then on no page
\* request is outstanding and none was made at or beyond the next offset.
C32_EmptyPageEndsPaging ==
    /\ []((offset > 0 /\ results = <<>>) =>
             /\ ~hasMore
             /\ sPc # "page"
             /\ \A o \in requestedOffsets : o < offset)
    /\ [][(sPc = "page" /\ offset' = offset + 50 /\ results' = <<>>)
             => (~hasMore' /\ sPc' \in {"loop", "fold"})]_vars
    /\ [][(sPc = "loop" /\ offset > 0 /\ results = <<>>) => sPc' # "page"]_vars

\* the second page came back empty while 120 orders are declared: paging
\* ended with the 50 orders of the first page and the next offset at 100
C32_Witness ==
    /\ sPc = "fold"
    /\ totalFound = 120
    /\ offset = 100
    /\ results = <<>>
    /\ Len(allOrders) = 50

-----------------------------------------------------------------------------
RECURSIVE OwnUnits(_, _, _)
\* the units of the resolved ids among the first n of ids whose SELLER_SKU
\* value is value (NoSku: the ids without a SELLER_SKU value)
OwnUnits(ids, value, n) ==
    IF n = 0 THEN 0
    ELSE OwnUnits(ids, value, n - 1)
         + (IF Resolves(ids[n]) /\ ItemSkuValue(ids[n]) = value
            THEN Units(itemSales, ids[n]) ELSE 0)

\* C33: when every SKU batch was answered, every key of salesBySKU other than
\* 'SIN-SKU' holds the units of the resolved items whose SELLER_SKU value is
\* that key, and the key 'SIN-SKU' holds the units of the resolved items
\* without a SELLER_SKU value and of no other item.
C33_SentinelKeptApart ==
    (sPc = "done" /\ sResponse.status = 200 /\ skuBatchesFailed = {}) =>
        \A s \in DOMAIN sResponse.salesBySKU :
            sResponse.salesBySKU[s] =
                OwnUnits(itemIds, IF s = "SIN-SKU" THEN NoSku ELSE s, Len(itemIds))

\* every sold item id contributed to the SKU aggregate: its multi-get entry
\* had sub-status 200 and a body, in a batch that was answered 2xx
AllSoldResolved == \A p \in 1..Len(itemIds) : p \in ResolvedPositions

\* C34: in a 200 answer of the sales route totalUnitsAllSKUs is at least the
\* sum of the values of salesBySKU, and the two are equal exactly when every
\* sold item id was resolved by the multi-get (the upstream answers one
\* entry per requested id).
C34_TotalBoundsAggregate ==
    (sPc = "done" /\ sResponse.status = 200) =>
        /\ sResponse.totalUnitsAllSKUs >= AggregateTotal(sResponse.salesBySKU)
        /\ (sResponse.totalUnitsAllSKUs = AggregateTotal(sResponse.salesBySKU))
              <=> AllSoldResolved

\* an answer whose total equals a non-empty aggregate: every sold id was
\* resolved
C34_Witness ==
    /\ sPc = "done"
    /\ sResponse.status = 200
    /\ AllSoldResolved
    /\ sResponse.totalUnitsAllSKUs = AggregateTotal(sResponse.salesBySKU)
    /\ sResponse.totalUnitsAllSKUs > 0

-----------------------------------------------------------------------------
(* SpecRoutes: one request to either data route, /api/sales or              *)
(* /api/products, with or without the access-token cookie.                 *)

InitRoutes == InitSales \/ InitProducts

NextRoutes == NextSales \/ NextProducts

SpecRoutes == InitRoutes /\ [][NextRoutes]_vars

\* C35: when the access-token cookie is absent, the products route and the
\* sales route answer 401 and issue no upstream request: fetchWithRetry is
\* never called, no batch of ids is requested, and the handler goes from its
\* start straight to the 401 answer.
C35_NoCookieNoUpstream ==
    ~accessToken =>
        /\ fPc = "idle"
        /\ fStatuses = <<>>
        /\ detailLog = <<>>
        /\ sPc \in {"off", "start", "done"}
        /\ pPc \in {"off", "start", "done"}
        /\ sPc = "done" => sResponse = [status |-> 401, error |-> "No autenticado"]
        /\ pPc = "done" => pResponse = [status |-> 401, error |-> "No autenticado"]

\* the sales route has answered a request without cookie
C35_Witness ==
    /\ ~accessToken
    /\ sPc = "done"
    /\ sResponse.status = 401
    /\ fPc = "idle"

\* C36: on every path through the dashboard's fetchProducts (all pages
\* loaded, 401 redirect on the first page, non-2xx first page, raised error)
\* loading and loadingMore are both false in the state in which it finishes.
C36_FlagsClearedAtEnd ==
    [][(fpPc # "done" /\ fpPc' = "done") => (~loading' /\ ~loadingMore')]_vars

\* fetchProducts has finished after loading further pages, during which
\* loadingMore was set, and both flags are false
C36_Witness ==
    /\ fpPc = "done"
    /\ lmPc = "idle"
    /\ Len(requestLog) = InitialBatches(total)
    /\ Len(products) > batchSize
    /\ ~loading
    /\ ~loadingMore


-----------------------------------------------------------------------------
(* SpecTable: one mount of the dashboard (either revision, every explored  *)
(* catalog) followed by any sequence of events of the table: search text,  *)
(* filters, page size, page navigation and 'Cargar más'.                   *)

\* the largest catalog whose rows the table is explored with: the records
\* of the revision in src/unnamed/part_000 are rendered, filtered and paged
ShownCatalog == 120
\* what /api/sales answers to the mount of the table
TableSalesAnswers == {[status |-> 200, salesBySKU |-> ("SKU-A" :> 7)]}

InitTable ==
    /\ NoDetailRequests
    /\ refreshToken = TRUE
    /\ authResponse = NoAuthResponse
    /\ FetchIdle
    /\ UpstreamQuiet
    /\ productsRoute \in {"route.ts", "part_000"}
    /\ sPc = "off"
    /\ accessToken = TRUE
    /\ SalesLocalsInit
    /\ \E c \in CatalogCases :
          /\ catTotal = c.total
          /\ catSkipped = c.skipped
          /\ catStale = c.stale
    /\ catNoBody = {}
    /\ ProductsNotStarted
    /\ revision \in {"all", "loadmore"}
    /\ fpPc = "start"
    /\ fsPc = "start"
    /\ salesAnswer \in TableSalesAnswers
    /\ DashLocalsInit
    /\ productsRoute = "part_000" => catTotal <= ShownCatalog

NextTable ==
    \/ MountEffect /\ UNCHANGED <<fvars, upvars, svars, pvars, avars, gvars>>
    \/ \E resp \in ApiResponses :
          FetchProductsFirst(resp) /\ UNCHANGED <<fvars, upvars, svars, pvars, avars, gvars>>
    \/ \E resp \in ApiResponses :
          FetchProductsPage(resp) /\ UNCHANGED <<fvars, upvars, svars, pvars, avars, gvars>>
    \/ FetchProductsTimer /\ UNCHANGED <<fvars, upvars, svars, pvars, avars, gvars>>
    \/ LoadMoreStart /\ UNCHANGED <<fvars, upvars, svars, pvars, avars, gvars>>
    \/ LoadMoreTimer /\ UNCHANGED <<fvars, upvars, svars, pvars, avars, gvars>>
    \/ \E resp \in ApiResponses :
          LoadMorePage(resp) /\ UNCHANGED <<fvars, upvars, svars, pvars, avars, gvars>>
    \/ FetchSalesDone /\ UNCHANGED <<fvars, upvars, svars, pvars, avars, gvars>>
    \/ \E term \in SearchTerms :
          SetSearchTerm(term) /\ UNCHANGED <<fvars, upvars, svars, pvars, avars, gvars>>
    \/ \E value \in FulfillmentFilters :
          SetFulfillmentFilter(value)
          /\ UNCHANGED <<fvars, upvars, svars, pvars, avars, gvars>>
    \/ \E value \in StatusFilters :
          SetStatusFilter(value) /\ UNCHANGED <<fvars, upvars, svars, pvars, avars, gvars>>
    \/ \E newLimit \in {50, 100, 200, 500} :
          handleItemsPerPageChange(newLimit)
          /\ UNCHANGED <<fvars, upvars, svars, pvars, avars, gvars>>
    \/ \E newPage \in (0 - MaxPageSteps)..MaxPageSteps :
          handlePageChange(newPage)
          /\ UNCHANGED <<fvars, upvars, svars, pvars, avars, gvars>>
    \/ handleLogout /\ UNCHANGED <<fvars, upvars, slvars, pvars, gvars>>
    \/ \E outcome \in {200, NetworkError} :
          handleLogoutDone(outcome) /\ UNCHANGED <<fvars, upvars, slvars, pvars, gvars>>

SpecTable == InitTable /\ [][NextTable]_vars

\* C38: after any sequence of events of the dashboard's table (search text,
\* fulfillment and status filters, page size, first/previous/next/last
\* navigation, load more), 1 <= currentPage <= max(1, totalPages), where
\* totalPages = ceil(filteredProducts.length / itemsPerPage).
C38_CurrentPageInRange ==
    /\ 1 <= currentPage
    /\ currentPage <= Max(1, CeilDiv(Len(filteredProducts), itemsPerPage))
====
